---- MODULE Spec2Model ----
(***************************************************************************)
(* A model of the WGPUI immediate-mode UI core: node identity, the node    *)
(* store and frame builder, the sizing passes, finish/prune (src/src/ui.rs)*)
(* and the pointer recorder (src/src/input_recorder.rs).                   *)
(*                                                                         *)
(* f32 extents are modelled as integers; the single division of the grow   *)
(* pass rounds toward zero.  u64 node ids are modelled at HashBits bits.   *)
(***************************************************************************)
EXTENDS Integers, Sequences, FiniteSets, TLC

VARIABLES
    \* ui::State
    node_stack,     \* Vec<Node>: nodes under construction
    cached_nodes,   \* FxHashMap<NodeId, Node>
    roots,          \* Vec<NodeId>
    frame_index,    \* u64
    id_stack,       \* Vec<NodeId>
    \* observation of the calls made on ui::State
    status,         \* "running" | "panic" | "hang"
    rects,          \* the draw list returned by the last finish()
    phase,          \* "open": a frame is being declared, "ended": finalized
    n_begun,        \* begin calls made in the whole run
    declared,       \* per frame (index + 1), the ids begin was called for, in order
    last_call,      \* the last call made on the State
    last_id,        \* the NodeId the last node_id_from_str call returned
    idLog,          \* the node_id_from_str calls made: [top, label, id, frame]
    looked,         \* what the last cached_node call returned (an Option<Node>)
    \* input_recorder::MouseState and the clock it reads
    mouse,
    clock,          \* Instant::now(), in milliseconds
    events,         \* the button transitions set_button_press has made
    \* the interaction tracker
    tracker,        \* what the last register call saw
    sig,            \* the SignalFlags the last register call returned
    \* the tab bar of ui_items
    tb,             \* TabBar: tabs, selected_tab_id, is_dragging, dragging_offset
    tab_next,       \* 0 outside the bar; k: the k-th tabitem call of the frame is next
    track,          \* the tracker of the bar's items: rects, active_id, was_left
    tab_log,        \* what the last tabitem call did
    \* the application shell and the GPU context
    renderer,       \* Renderer: active_surface, the surface configuration, the framebuffers
    app,            \* App: last_size, whether it runs, what the last redraw got and did
    window_size,    \* Window::inner_size()
    pipeline_reg,   \* WGPU::pipeline_reg: the map, the mutex's holder and poison flag
    callers,        \* per thread, the registry call it is in and where
    gpu_log         \* load calls made per PipelineID, pipelines created, and per
                    \* PipelineID what get_or_init_pipeline returned last since
                    \* the entry was registered anew

vars == <<node_stack, cached_nodes, roots, frame_index, id_stack, status, rects,
          phase, n_begun, declared, last_call, last_id, idLog, looked, mouse,
          clock, events, tracker, sig, tb, tab_next, track, tab_log,
          renderer, app, window_size, pipeline_reg, callers, gpu_log>>

uiVars == <<node_stack, cached_nodes, roots, frame_index, id_stack, status, rects,
            phase, n_begun, declared, last_call, last_id, idLog, looked>>

mouseVars == <<mouse, clock, events, tracker, sig>>

tabVars == <<tb, tab_next, track, tab_log>>

gpuVars == <<renderer, app, window_size, pipeline_reg, callers, gpu_log>>

-----------------------------------------------------------------------------
(* Bounds of the model *)

HashBits == 8       \* width of a NodeId in the model (u64 in the source)
MaxBegins == 4      \* begin calls in one run
MaxDepth == 3       \* depth of the build stack
MaxFrames == 2      \* frames in one run
MaxLabelLen == 2    \* bytes in a label (identity specification)
MaxEvents == 4      \* button transitions in one run
MaxClock == 251     \* the clock stops advancing here
MaxPipelines == 2
MaxTabFrames == 5   \* frames of the tab bar in one run

-----------------------------------------------------------------------------
(* Identity: NodeId, FxHasher *)

NULL == 0

HashMod == 2 ^ HashBits

\* the multiplier of rustc_hash::FxHasher (its low bits; odd)
FxK == 197

\* FxHasher::add_to_hash: wrapping add, wrapping multiply
add_to_hash(h, i) == (((h + i) % HashMod) * FxK) % HashMod

\* FxHasher::finish: a bit rotation of the state
fx_finish(h) == ((h * 4) % HashMod) + (h \div (HashMod \div 4))

RECURSIVE fx_write(_, _)
\* Hasher::write over the bytes of the label, front to back
fx_write(h, bytes) ==
    IF bytes = <<>> THEN h
    ELSE fx_write(add_to_hash(h, Head(bytes)), Tail(bytes))

\* impl Hash for str: the bytes, then the 0xff terminator
str_hash(seed, s) == fx_finish(add_to_hash(fx_write(seed, s), 255))

Max(a, b) == IF a >= b THEN a ELSE b
Min(a, b) == IF a <= b THEN a ELSE b

\* NodeId::from_str: FxHasher::default(), floored to 1
from_str(s) == Max(str_hash(0, s), 1)

\* a node_id_from_str whose hasher is seeded with the frame counter as well
node_id_from_str_salted(ids, s) ==
    IF ids # <<>> THEN str_hash((ids[Len(ids)] + frame_index) % HashMod, s)
    ELSE Max(str_hash(frame_index % HashMod, s), 1)

\* State::node_id_from_str
node_id_from_str(ids, s) ==
    IF ids # <<>> THEN str_hash(ids[Len(ids)], s)
    ELSE from_str(s)

-----------------------------------------------------------------------------
(* Node, SizingTyp, Padding *)

\* one pixel in the fixed-point unit that models an f32 extent
Unit == 12

Vec2(x, y) == [x |-> x, y |-> y]
Vec2_ZERO == Vec2(0, 0)

\* ops::Index<Axis> on a Vec2 / PerAxis
At(v, a) == IF a = "X" THEN v.x ELSE v.y
SetAt(v, a, e) == IF a = "X" THEN [v EXCEPT !.x = e] ELSE [v EXCEPT !.y = e]

Sizing(t, v) == [typ |-> t, v |-> v]
Null == Sizing("Null", 0)
Fit == Sizing("Fit", 0)
Grow == Sizing("Grow", 0)
Fixed(v) == Sizing("Fixed", v)

Padding_new(l, r, t, b) == [left |-> l, right |-> r, top |-> t, bottom |-> b]
Padding_ZERO == Padding_new(0, 0, 0, 0)

\* Padding::sum_along_axis
sum_along_axis(pad, a) ==
    IF a = "X" THEN pad.left + pad.right ELSE pad.top + pad.bottom

Some(v) == [some |-> TRUE, v |-> v]
None == [some |-> FALSE, v |-> Vec2_ZERO]

\* Node::NULL (size and pos are NAN there; build_node_from_id overwrites both
\* before anything reads them)
Node_NULL ==
    [id |-> NULL, first |-> NULL, last |-> NULL, next |-> NULL, prev |-> NULL,
     parent |-> NULL, n_children |-> 0,
     background_color |-> 0, layout_direction |-> "X",
     padding |-> Padding_ZERO, child_gap |-> 0,
     fixed_pos |-> Some(Vec2_ZERO),
     sizing_typ |-> Vec2(Null, Null),
     size |-> Vec2_ZERO, pos |-> Vec2_ZERO,
     last_frame_used |-> 0]

\* Node::as_rect_inst
as_rect_inst(n) ==
    [min |-> n.pos,
     max |-> Vec2(n.pos.x + n.size.x, n.pos.y + n.size.y),
     color |-> n.background_color]

-----------------------------------------------------------------------------
(* The configure closures handed to begin_node: each sets some fields of   *)
(* the node it is given and leaves the others as they are.                 *)

NoPatch ==
    [sx |-> <<>>, sy |-> <<>>, dir |-> <<>>, pad |-> <<>>, gap |-> <<>>,
     pos |-> <<>>, col |-> <<>>]

Patched(field, old) == IF field = <<>> THEN old ELSE field[1]

\* f(n) for a closure that sets the fields named in patch
Configure(patch, n) ==
    [n EXCEPT
        !.sizing_typ = Vec2(Patched(patch.sx, n.sizing_typ.x),
                            Patched(patch.sy, n.sizing_typ.y)),
        !.layout_direction = Patched(patch.dir, n.layout_direction),
        !.padding = Patched(patch.pad, n.padding),
        !.child_gap = Patched(patch.gap, n.child_gap),
        !.fixed_pos = Patched(patch.pos, n.fixed_pos),
        !.background_color = Patched(patch.col, n.background_color)]

\* |n| n.fixed_size((2.0, 1.0))
pFixedA == [NoPatch EXCEPT !.sx = <<Fixed(2 * Unit)>>, !.sy = <<Fixed(1 * Unit)>>]

\* |n| n.fixed_size((3.0, 2.0)).background_color(1)
pFixedB == [NoPatch EXCEPT !.sx = <<Fixed(3 * Unit)>>, !.sy = <<Fixed(2 * Unit)>>,
                           !.col = <<1>>]

\* |n| n.grow()
pGrow == [NoPatch EXCEPT !.sx = <<Grow>>, !.sy = <<Grow>>]

\* a Fit row with padding and a gap, positioned by its parent
pFitRow ==
    [NoPatch EXCEPT !.sx = <<Fit>>, !.sy = <<Fit>>, !.dir = <<"X">>,
                    !.pad = <<Padding_new(1 * Unit, 2 * Unit, 1 * Unit, 0)>>,
                    !.gap = <<1 * Unit>>, !.pos = <<None>>]

\* a Fixed row with a gap, at an explicit position
pFixedRow ==
    [NoPatch EXCEPT !.sx = <<Fixed(8 * Unit)>>, !.sy = <<Fixed(4 * Unit)>>,
                    !.dir = <<"X">>, !.pad = <<Padding_new(1 * Unit, 0, 0, 0)>>,
                    !.gap = <<1 * Unit>>, !.pos = <<Some(Vec2(1 * Unit, 1 * Unit))>>]

\* a Fit column
pFitCol ==
    [NoPatch EXCEPT !.sx = <<Fit>>, !.sy = <<Fit>>, !.dir = <<"Y">>,
                    !.pad = <<Padding_new(0, 0, 1 * Unit, 1 * Unit)>>,
                    !.gap = <<1 * Unit>>]

-----------------------------------------------------------------------------
(* The node store *)

InCache(cache, id) == id \in DOMAIN cache

\* FxHashMap::insert
Insert(cache, id, n) ==
    [k \in (DOMAIN cache) \cup {id} |-> IF k = id THEN n ELSE cache[k]]

\* FxHashMap::remove
Remove(cache, id) == [k \in (DOMAIN cache) \ {id} |-> cache[k]]

\* State::cached_node / cached_node_mut: whether the lookup returns (it panics
\* on the NULL id and on an id that is no key of the store)
cached_node_ok(cache, id) == id # NULL /\ InCache(cache, id)

\* a lookup that hands out Node::NULL for an id it does not find
cached_node_or_default(cache, id) ==
    IF InCache(cache, id) /\ id # NULL
    THEN [end |-> "ok", n |-> cache[id]]
    ELSE [end |-> "ok", n |-> Node_NULL]

\* State::cached_node / cached_node_mut: the node returned, or the panic
cached_node(cache, id) ==
    IF cached_node_ok(cache, id)
    THEN [end |-> "ok", n |-> cache[id]]
    ELSE [end |-> "panic", n |-> Node_NULL]

\* a prune_nodes that keeps the nodes of the previous frame as well
prune_nodes_keep_previous(cache, frame) ==
    LET keep == {k \in DOMAIN cache : cache[k].last_frame_used + 1 >= frame}
    IN  [k \in keep |-> cache[k]]

\* State::prune_nodes
prune_nodes(cache, frame) ==
    LET keep == {k \in DOMAIN cache : cache[k].last_frame_used = frame}
    IN  [k \in keep |-> cache[k]]

\* a take_or_init_node that reads the cached node and leaves it in the store
take_or_init_node_keeping(cache, id) ==
    IF InCache(cache, id)
    THEN [n |-> cache[id], cache |-> cache, is_new |-> FALSE]
    ELSE [n |-> [Node_NULL EXCEPT !.id = id], cache |-> cache, is_new |-> TRUE]

\* State::take_or_init_node
take_or_init_node(cache, id) ==
    IF InCache(cache, id)
    THEN [n |-> cache[id], cache |-> Remove(cache, id), is_new |-> FALSE]
    ELSE [n |-> [Node_NULL EXCEPT !.id = id], cache |-> cache, is_new |-> TRUE]

Top(stack) == stack[Len(stack)]
Pop(stack) == SubSeq(stack, 1, Len(stack) - 1)
SetTop(stack, n) == [stack EXCEPT ![Len(stack)] = n]

\* State::build_node_from_id: the node built, the stack (the parent on top
\* gets the new child linked), the store, and whether the unwrap of the
\* previous sibling's lookup succeeded
build_node_from_id(stack, cache, frame, id) ==
    LET t == take_or_init_node(cache, id)
        n0 == [t.n EXCEPT !.next = NULL, !.prev = NULL, !.n_children = 0,
                          !.first = NULL, !.last = NULL, !.parent = NULL,
                          !.size = Vec2_ZERO, !.pos = Vec2_ZERO,
                          !.last_frame_used = frame]
        hasP == stack # <<>>
        p == Top(stack)
        n1 == IF ~hasP THEN n0
              ELSE [n0 EXCEPT
                      !.prev = IF p.first # NULL /\ p.last # NULL
                               THEN p.last ELSE NULL,
                      !.parent = p.id]
        p1 == [p EXCEPT !.first = IF p.first = NULL THEN n0.id ELSE p.first,
                        !.last = n0.id,
                        !.n_children = p.n_children + 1]
        stack1 == IF hasP THEN SetTop(stack, p1) ELSE stack
        ok == n1.prev = NULL \/ InCache(t.cache, n1.prev)
        cache1 == IF n1.prev # NULL /\ ok
                  THEN [t.cache EXCEPT ![n1.prev].next = n1.id]
                  ELSE t.cache
    IN  [n |-> n1, stack |-> stack1, cache |-> cache1, ok |-> ok]

-----------------------------------------------------------------------------
(* The sizing engine *)

\* State::node_fit_sizing: the measured node and the stack, whose top (the
\* parent) has the node folded into its running size
node_fit_sizing(stack, n) ==
    LET sx == IF n.sizing_typ.x.typ = "Fixed" THEN n.sizing_typ.x.v ELSE n.size.x
        sy == IF n.sizing_typ.y.typ = "Fixed" THEN n.sizing_typ.y.v ELSE n.size.y
        p == Top(stack)
        nx == sx + n.padding.left + n.padding.right
        ny == sy + n.padding.top + n.padding.bottom
        gaps == (p.n_children - 1) * p.child_gap
        psize == IF p.layout_direction = "X"
                 THEN Vec2(p.size.x + gaps + nx, Max(p.size.y, ny))
                 ELSE Vec2(Max(p.size.x, nx), p.size.y + gaps + ny)
    IN  IF stack = <<>>
        THEN [n |-> [n EXCEPT !.size = Vec2(sx, sy)], stack |-> stack]
        ELSE [n |-> [n EXCEPT !.size = Vec2(nx, ny)],
              stack |-> SetTop(stack, [p EXCEPT !.size = psize])]

RECURSIVE chain(_, _, _)
\* the walk "child_id = p.first; while !child_id.is_null() { cached_node(child_id);
\* child_id = n.next }": the ids visited, and whether every lookup returned.
\* fuel bounds the walk by the size of the store.
chain(cache, id, fuel) ==
    IF id = NULL THEN [ids |-> <<>>, ok |-> TRUE]
    ELSE IF ~InCache(cache, id) \/ fuel = 0 THEN [ids |-> <<>>, ok |-> FALSE]
    ELSE LET r == chain(cache, cache[id].next, fuel - 1)
         IN  [ids |-> <<id>> \o r.ids, ok |-> r.ok]

children_of(cache, p) == chain(cache, p.first, Cardinality(DOMAIN cache))

RECURSIVE SumSizes(_, _, _)
SumSizes(cache, ids, a) ==
    IF ids = <<>> THEN 0
    ELSE At(cache[Head(ids)].size, a) + SumSizes(cache, Tail(ids), a)

SelectSeqGrow(cache, ids, a) ==
    SelectSeq(ids, LAMBDA id : At(cache[id].sizing_typ, a) = Grow)

\* f32::INFINITY, above every extent of the model
INFINITY == 1000000

RECURSIVE scan_smallest(_, _, _, _)
\* the first loop of one water-filling round: smallest, second_smallest, to_add
scan_smallest(cache, ids, a, acc) ==
    IF ids = <<>> THEN acc
    ELSE LET sz == At(cache[Head(ids)].size, a)
             a1 == IF sz < acc.smallest
                   THEN [acc EXCEPT !.second_smallest = acc.smallest,
                                    !.smallest = sz]
                   ELSE acc
             a2 == IF sz > a1.smallest
                   THEN [a1 EXCEPT
                           !.second_smallest = Min(a1.second_smallest, sz),
                           !.to_add = Min(a1.second_smallest, sz) - a1.smallest]
                   ELSE a1
         IN  scan_smallest(cache, Tail(ids), a, a2)

RECURSIVE raise_smallest(_, _, _, _, _, _)
\* the second loop of one round: every growable node at the smallest extent is
\* raised by to_add, which is taken from remaining
raise_smallest(cache, ids, a, smallest, to_add, remaining) ==
    IF ids = <<>> THEN [cache |-> cache, remaining |-> remaining]
    ELSE LET id == Head(ids)
             hit == At(cache[id].size, a) = smallest
             c1 == IF hit
                   THEN [cache EXCEPT ![id].size =
                            SetAt(cache[id].size, a, At(cache[id].size, a) + to_add)]
                   ELSE cache
         IN  raise_smallest(c1, Tail(ids), a, smallest, to_add,
                            IF hit THEN remaining - to_add ELSE remaining)

RECURSIVE grow_loop(_, _, _, _)
\* "while remaining > 0.0 && !growable.is_empty()": the store when the loop
\* ends; hang when a round adds nothing (to_add rounds to zero while
\* remaining stays positive), after which every further round is the same
grow_loop(cache, growable, a, remaining) ==
    IF ~(remaining > 0 /\ growable # <<>>)
    THEN [cache |-> cache, hang |-> FALSE, remaining |-> remaining]
    ELSE LET s == scan_smallest(cache, growable, a,
                    [smallest |-> At(cache[growable[1]].size, a),
                     second_smallest |-> INFINITY,
                     to_add |-> remaining])
             to_add == Min(s.to_add, remaining \div Len(growable))
             r == raise_smallest(cache, growable, a, s.smallest, to_add, remaining)
         IN  IF to_add = 0
             THEN [cache |-> cache, hang |-> TRUE, remaining |-> remaining]
             ELSE grow_loop(r.cache, growable, a, r.remaining)

\* State::node_grow_elements_along_axis: the store after the pass, and how
\* the call ended: "ok", "panic" (a child lookup failed), "hang"
node_grow_elements_along_axis(cache, p, a) ==
    LET ch == children_of(cache, p)
        growable == SelectSeqGrow(cache, ch.ids, a)
        remaining == At(p.size, a) - sum_along_axis(p.padding, a)
                     - SumSizes(cache, growable, a)
                     - (p.n_children - 1) * p.child_gap
        r == grow_loop(cache, growable, a, remaining)
    IN  IF ~ch.ok THEN [cache |-> cache, end |-> "panic"]
        ELSE IF growable = <<>> THEN [cache |-> cache, end |-> "ok"]
        ELSE IF r.hang THEN [cache |-> r.cache, end |-> "hang"]
        ELSE [cache |-> r.cache, end |-> "ok"]

RECURSIVE place_children(_, _, _, _)
place_children(cache, ids, p, pos) ==
    IF ids = <<>> THEN cache
    ELSE LET id == Head(ids)
             n == cache[id]
             nxt == IF p.layout_direction = "X"
                    THEN Vec2(pos.x + n.size.x + p.child_gap, pos.y)
                    ELSE Vec2(pos.x, pos.y + n.size.y + p.child_gap)
         IN  place_children([cache EXCEPT ![id].pos = pos], Tail(ids), p, nxt)

\* State::node_compute_element_positions
node_compute_element_positions(cache, p) ==
    LET ch == children_of(cache, p)
        pos == Vec2(p.padding.left + p.pos.x, p.padding.top + p.pos.y)
    IN  IF ~ch.ok THEN [cache |-> cache, end |-> "panic"]
        ELSE [cache |-> place_children(cache, ch.ids, p, pos), end |-> "ok"]

\* a pop_parent that runs the position pass at the end of every node, not
\* only of a root
pop_parent_placing_every_node(stack, cache, rts) ==
    LET f == node_fit_sizing(Pop(stack), Top(stack))
        n == f.n
        gx == node_grow_elements_along_axis(cache, n, "X")
        gy == node_grow_elements_along_axis(gx.cache, n, "Y")
        n1 == IF n.fixed_pos.some THEN [n EXCEPT !.pos = n.fixed_pos.v] ELSE n
        ps == node_compute_element_positions(gy.cache, n1)
        early == node_compute_element_positions(cache, n)
    IN  IF n.parent # NULL
        THEN [stack |-> f.stack, cache |-> Insert(early.cache, n.id, n),
              roots |-> rts, end |-> early.end]
        ELSE IF gx.end # "ok"
        THEN [stack |-> f.stack, cache |-> gx.cache, roots |-> rts, end |-> gx.end]
        ELSE IF gy.end # "ok"
        THEN [stack |-> f.stack, cache |-> gy.cache, roots |-> rts, end |-> gy.end]
        ELSE IF ps.end # "ok"
        THEN [stack |-> f.stack, cache |-> ps.cache, roots |-> rts, end |-> ps.end]
        ELSE [stack |-> f.stack, cache |-> Insert(ps.cache, n1.id, n1),
              roots |-> Append(rts, n1.id), end |-> "ok"]

\* State::pop_parent (the node stack is not empty): fit sizing, for a root the
\* grow and position passes, and the node goes back into the store
pop_parent(stack, cache, rts) ==
    LET f == node_fit_sizing(Pop(stack), Top(stack))
        n == f.n
        gx == node_grow_elements_along_axis(cache, n, "X")
        gy == node_grow_elements_along_axis(gx.cache, n, "Y")
        n1 == IF n.fixed_pos.some THEN [n EXCEPT !.pos = n.fixed_pos.v] ELSE n
        ps == node_compute_element_positions(gy.cache, n1)
    IN  IF n.parent # NULL
        THEN [stack |-> f.stack, cache |-> Insert(cache, n.id, n),
              roots |-> rts, end |-> "ok"]
        ELSE IF gx.end # "ok"
        THEN [stack |-> f.stack, cache |-> gx.cache, roots |-> rts, end |-> gx.end]
        ELSE IF gy.end # "ok"
        THEN [stack |-> f.stack, cache |-> gy.cache, roots |-> rts, end |-> gy.end]
        ELSE IF ps.end # "ok"
        THEN [stack |-> f.stack, cache |-> ps.cache, roots |-> rts, end |-> ps.end]
        ELSE [stack |-> f.stack, cache |-> Insert(ps.cache, n1.id, n1),
              roots |-> Append(rts, n1.id), end |-> "ok"]

-----------------------------------------------------------------------------
(* Finalize *)

RECURSIVE push_children(_, _, _, _)
\* the inner loop of finish: "while !child_id.is_null() { nodes.push_front(child_id);
\* let c = self.cached_node(id); child_id = c.next; }".  c is the node being
\* emitted (id), so child_id becomes that node's own next; once child_id
\* repeats, every further round pushes the same id again and the loop never ends.
push_children(cache, id, child_id, nodes) ==
    IF child_id = NULL THEN [nodes |-> nodes, hang |-> FALSE]
    ELSE LET nxt == cache[id].next
         IN  IF nxt = child_id
             THEN [nodes |-> <<child_id>> \o nodes, hang |-> TRUE]
             ELSE push_children(cache, id, nxt, <<child_id>> \o nodes)

RECURSIVE finish_loop(_, _, _, _)
\* "while let Some(id) = nodes.pop_back()": the rectangles pushed and how the
\* loop ended.  A run that ends pops at most fuel ids (no pop adds more than
\* one id to the queue), so running out of fuel is a loop that never ends.
finish_loop(cache, nodes, out, fuel) ==
    IF nodes = <<>> THEN [rects |-> out, end |-> "ok"]
    ELSE LET id == nodes[Len(nodes)]
             rest == SubSeq(nodes, 1, Len(nodes) - 1)
         IN  IF ~cached_node_ok(cache, id) THEN [rects |-> out, end |-> "panic"]
             ELSE IF fuel = 0 THEN [rects |-> out, end |-> "hang"]
             ELSE LET n == cache[id]
                      pc == push_children(cache, id, n.first, rest)
                  IN  IF pc.hang THEN [rects |-> out, end |-> "hang"]
                      ELSE finish_loop(cache, pc.nodes,
                                       Append(out, as_rect_inst(n)), fuel - 1)

\* a finish that drops an unfinished build stack and emits what was built
finish_recovering(stack, cache, rts) ==
    LET r == finish_loop(cache, rts, <<>>,
                         (Len(rts) + 1) * (Cardinality(DOMAIN cache) + 1))
    IN  [rects |-> r.rects, roots |-> <<>>, stack |-> <<>>, end |-> r.end]

\* State::finish: the draw list, the roots and the stack left, and how the
\* call ended ("ok", "panic", "hang")
finish(stack, cache, rts) ==
    LET r == finish_loop(cache, rts, <<>>,
                         (Len(rts) + 1) * (Cardinality(DOMAIN cache) + 1))
    IN  IF stack # <<>>
        THEN [rects |-> <<>>, roots |-> rts, stack |-> stack, end |-> "panic"]
        ELSE [rects |-> r.rects, roots |-> <<>>, stack |-> stack, end |-> r.end]

-----------------------------------------------------------------------------
(* input_recorder: MouseState *)

\* Duration::from_millis(150)
double_click_time == 150

\* drag_threshold: 5.0
drag_threshold == 5

MouseButtons == {"Left", "Right", "Middle"}

NoInstant == [some |-> FALSE, t |-> 0]
At_time(t) == [some |-> TRUE, t |-> t]

\* ButtonState::default()
ButtonState_default ==
    [pressed |-> FALSE, double_press |-> FALSE, press_start_pos |-> Vec2_ZERO,
     press_time |-> NoInstant, last_release_time |-> NoInstant,
     last_press_was_short |-> FALSE, dragging |-> FALSE]

\* MouseState::new (double_click_time and drag_threshold are never written)
MouseState_new ==
    [mouse_pos |-> Vec2_ZERO, prev_pos |-> Vec2_ZERO,
     buttons |-> [b \in MouseButtons |-> ButtonState_default]]

\* Vec2::distance(a, b) > d, for d >= 0
FartherThan(a, b, d) ==
    (a.x - b.x) * (a.x - b.x) + (a.y - b.y) * (a.y - b.y) > d * d

\* a set_mouse_pos that starts the drag at the threshold, not beyond it
set_mouse_pos_at_threshold(m, x, y) ==
    LET pos == Vec2(x, y)
        upd(st) == IF st.pressed /\ ~st.dragging
                      /\ (pos.x - st.press_start_pos.x) * (pos.x - st.press_start_pos.x)
                           + (pos.y - st.press_start_pos.y) * (pos.y - st.press_start_pos.y)
                         >= drag_threshold * drag_threshold
                   THEN [st EXCEPT !.dragging = TRUE]
                   ELSE st
    IN  [m EXCEPT !.prev_pos = m.mouse_pos,
                  !.mouse_pos = pos,
                  !.buttons = [b \in MouseButtons |-> upd(m.buttons[b])]]

\* MouseState::set_mouse_pos
set_mouse_pos(m, x, y) ==
    LET pos == Vec2(x, y)
        upd(st) == IF st.pressed /\ ~st.dragging
                      /\ FartherThan(pos, st.press_start_pos, drag_threshold)
                   THEN [st EXCEPT !.dragging = TRUE]
                   ELSE st
    IN  [m EXCEPT !.prev_pos = m.mouse_pos,
                  !.mouse_pos = pos,
                  !.buttons = [b \in MouseButtons |-> upd(m.buttons[b])]]

\* a set_button_press that takes any press after a release within the window
\* for a double press, whatever the length of the press before
set_button_press_any_length(m, now, button, pressed) ==
    LET st == m.buttons[button]
        down == [st EXCEPT
                    !.pressed = TRUE,
                    !.press_start_pos = m.mouse_pos,
                    !.press_time = At_time(now),
                    !.dragging = FALSE,
                    !.double_press =
                        IF st.last_release_time.some
                        THEN now - st.last_release_time.t <= double_click_time
                        ELSE FALSE]
        up == [st EXCEPT
                    !.pressed = FALSE,
                    !.dragging = FALSE,
                    !.last_press_was_short =
                        IF st.press_time.some
                        THEN now - st.press_time.t <= double_click_time
                        ELSE FALSE,
                    !.last_release_time = At_time(now),
                    !.press_time = NoInstant,
                    !.double_press = FALSE]
    IN  IF pressed /\ ~st.pressed THEN [m EXCEPT !.buttons[button] = down]
        ELSE IF ~pressed /\ st.pressed THEN [m EXCEPT !.buttons[button] = up]
        ELSE m

\* a set_button_press that takes every released press for a short one
set_button_press_every_press_short(m, now, button, pressed) ==
    LET st == m.buttons[button]
        down == [st EXCEPT
                    !.pressed = TRUE,
                    !.press_start_pos = m.mouse_pos,
                    !.press_time = At_time(now),
                    !.dragging = FALSE,
                    !.double_press =
                        IF st.last_release_time.some
                        THEN /\ now - st.last_release_time.t <= double_click_time
                             /\ st.last_press_was_short
                        ELSE FALSE]
        up == [st EXCEPT
                    !.pressed = FALSE,
                    !.dragging = FALSE,
                    !.last_press_was_short = st.press_time.some,
                    !.last_release_time = At_time(now),
                    !.press_time = NoInstant,
                    !.double_press = FALSE]
    IN  IF pressed /\ ~st.pressed THEN [m EXCEPT !.buttons[button] = down]
        ELSE IF ~pressed /\ st.pressed THEN [m EXCEPT !.buttons[button] = up]
        ELSE m

\* a set_button_press whose release leaves dragging and double_press alone
set_button_press_release_keeps_flags(m, now, button, pressed) ==
    LET st == m.buttons[button]
        down == [st EXCEPT
                    !.pressed = TRUE,
                    !.press_start_pos = m.mouse_pos,
                    !.press_time = At_time(now),
                    !.dragging = FALSE,
                    !.double_press =
                        IF st.last_release_time.some
                        THEN /\ now - st.last_release_time.t <= double_click_time
                             /\ st.last_press_was_short
                        ELSE FALSE]
        up == [st EXCEPT
                    !.pressed = FALSE,
                    !.last_press_was_short =
                        IF st.press_time.some
                        THEN now - st.press_time.t <= double_click_time
                        ELSE FALSE,
                    !.last_release_time = At_time(now),
                    !.press_time = NoInstant]
    IN  IF pressed /\ ~st.pressed THEN [m EXCEPT !.buttons[button] = down]
        ELSE IF ~pressed /\ st.pressed THEN [m EXCEPT !.buttons[button] = up]
        ELSE m

\* a set_button_press that takes a press event for a new press even when the
\* button is already down
set_button_press_every_event(m, now, button, pressed) ==
    LET st == m.buttons[button]
        down == [st EXCEPT
                    !.pressed = TRUE,
                    !.press_start_pos = m.mouse_pos,
                    !.press_time = At_time(now),
                    !.dragging = FALSE,
                    !.double_press =
                        IF st.last_release_time.some
                        THEN /\ now - st.last_release_time.t <= double_click_time
                             /\ st.last_press_was_short
                        ELSE FALSE]
        up == [st EXCEPT
                    !.pressed = FALSE,
                    !.dragging = FALSE,
                    !.last_press_was_short =
                        IF st.press_time.some
                        THEN now - st.press_time.t <= double_click_time
                        ELSE FALSE,
                    !.last_release_time = At_time(now),
                    !.press_time = NoInstant,
                    !.double_press = FALSE]
    IN  IF pressed THEN [m EXCEPT !.buttons[button] = down]
        ELSE IF st.pressed THEN [m EXCEPT !.buttons[button] = up]
        ELSE m

\* MouseState::set_button_press, with now = Instant::now()
set_button_press(m, now, button, pressed) ==
    LET st == m.buttons[button]
        down == [st EXCEPT
                    !.pressed = TRUE,
                    !.press_start_pos = m.mouse_pos,
                    !.press_time = At_time(now),
                    !.dragging = FALSE,
                    !.double_press =
                        IF st.last_release_time.some
                        THEN /\ now - st.last_release_time.t <= double_click_time
                             /\ st.last_press_was_short
                        ELSE FALSE]
        up == [st EXCEPT
                    !.pressed = FALSE,
                    !.dragging = FALSE,
                    !.last_press_was_short =
                        IF st.press_time.some
                        THEN now - st.press_time.t <= double_click_time
                        ELSE FALSE,
                    !.last_release_time = At_time(now),
                    !.press_time = NoInstant,
                    !.double_press = FALSE]
    IN  IF pressed /\ ~st.pressed THEN [m EXCEPT !.buttons[button] = down]
        ELSE IF ~pressed /\ st.pressed THEN [m EXCEPT !.buttons[button] = up]
        ELSE m

\* MouseState::pressed / dragging / double_clicked
mouse_pressed(m, button) == m.buttons[button].pressed
mouse_dragging(m, button) == m.buttons[button].dragging
double_clicked(m, button) == m.buttons[button].double_press

-----------------------------------------------------------------------------
(* SignalFlags and its accessors *)

\* sig_bits!(A | B): the union of the named bits
sig_bits(names) == names

\* bitflags contains: every bit of flag is set in s
contains(s, flag) == flag \subseteq s

\* sig_fn!(pressed => PRESSED_L | PRESSED_KEYBOARD)
pressed(s) == contains(s, sig_bits({"PRESSED_L", "PRESSED_KEYBOARD"}))
\* sig_fn!(clicked => CLICKED_L | PRESSED_KEYBOARD)
clicked(s) == contains(s, sig_bits({"CLICKED_L", "PRESSED_KEYBOARD"}))
\* sig_fn!(double_clicked => DOUBLE_CLICKED_L)
sig_double_clicked(s) == contains(s, sig_bits({"DOUBLE_CLICKED_L"}))
\* sig_fn!(dragging => DRAGGING_L)
dragging(s) == contains(s, sig_bits({"DRAGGING_L"}))
\* sig_fn!(released => RELEASED_L)
released(s) == contains(s, sig_bits({"RELEASED_L"}))

-----------------------------------------------------------------------------
(* The interaction tracker: register(id, rect) -> Signal for one node that *)
(* is registered every frame with the same rectangle                       *)

ItemRect == [min |-> Vec2(0, 0), max |-> Vec2(100, 20)]

\* Rect::contains
rect_contains(r, p) ==
    /\ r.min.x <= p.x /\ p.x <= r.max.x
    /\ r.min.y <= p.y /\ p.y <= r.max.y

Tracker_new ==
    [was_left |-> FALSE, was_inside |-> FALSE, left |-> FALSE, inside |-> FALSE]

\* the Signal of the node for the pointer state m, when Left was down
\* (was_left) at the previous register call
register(m, was_left) ==
    LET inside == rect_contains(ItemRect, m.mouse_pos)
        left == mouse_pressed(m, "Left")
        isPressed == left /\ inside
        isReleased == was_left /\ ~left /\ inside
    IN  (IF inside THEN {"HOVERING", "MOUSE_OVER"} ELSE {})
        \cup (IF isPressed THEN {"PRESSED_L"} ELSE {})
        \cup (IF isPressed /\ mouse_dragging(m, "Left") THEN {"DRAGGING_L"} ELSE {})
        \cup (IF isReleased THEN {"RELEASED_L", "CLICKED_L"} ELSE {})

-----------------------------------------------------------------------------
(* The tab bar: ui_items begin_tabbar / tabitem / end_tabbar, with the     *)
(* TabBar they keep and the tracker their items register with              *)

\* the labels tabitem is called with each frame, in call order, and the
\* item_width the text of each label gives
TabLabels == <<1, 2, 3>>
TabWidths == <<40, 50, 30>>

\* the gap layout_tabs leaves between two tabs
TabGap == 2

\* tb.bar_rect, as place_item returns it
BarRect == [min |-> Vec2(0, 0), max |-> Vec2(200, 20)]

\* Rect::from_min_size
from_min_size(min, size) ==
    [min |-> min, max |-> Vec2(min.x + size.x, min.y + size.y)]

\* ui::TabBar::new()
TabBar_new ==
    [tabs |-> <<>>, selected_tab_id |-> NULL, is_dragging |-> FALSE,
     dragging_offset |-> 0]

\* ui::TabItem::default() with id and width set
TabItem_new(id, width) == [id |-> id, width |-> width, offset |-> 0]

RECURSIVE offsets_from(_, _)
\* the offsets of the tabs in list order, the first at x
offsets_from(tabs, x) ==
    IF tabs = <<>> THEN <<>>
    ELSE <<x>> \o offsets_from(Tail(tabs), x + Head(tabs).width + TabGap)

\* TabBar::layout_tabs: every offset recomputed from the ordered widths and
\* the gap
layout_tabs(tabs) ==
    LET off == offsets_from(tabs, 0)
    IN  [i \in 1..Len(tabs) |-> [tabs[i] EXCEPT !.offset = off[i]]]

\* a position that looks at the first two tabs only
position_among_first_two(tabs, id) ==
    IF \E i \in 1..Min(2, Len(tabs)) : tabs[i].id = id
    THEN CHOOSE i \in 1..Min(2, Len(tabs)) : tabs[i].id = id
    ELSE 0

\* tabs.iter().position(|t| t.id == id), counted from 1; 0 for None
position(tabs, id) ==
    IF \E i \in 1..Len(tabs) : tabs[i].id = id
    THEN CHOOSE i \in 1..Len(tabs) : tabs[i].id = id
    ELSE 0

\* TabBar::get_insert_pos: the index the tab at indx takes when its left edge
\* is at x: one past the tabs whose midpoint x has passed
get_insert_pos(tabs, x, width, indx) ==
    1 + Cardinality({j \in 1..Len(tabs) :
                        j # indx /\ 2 * tabs[j].offset + tabs[j].width < 2 * x})

\* a move_tab that exchanges the two tabs
move_tab_swapping(tabs, from, to) ==
    [i \in 1..Len(tabs) |->
        IF i = from THEN tabs[to] ELSE IF i = to THEN tabs[from] ELSE tabs[i]]

\* TabBar::move_tab: the tab at from is taken out and put in at to
move_tab(tabs, from, to) ==
    LET rest == SubSeq(tabs, 1, from - 1) \o SubSeq(tabs, from + 1, Len(tabs))
    IN  SubSeq(rest, 1, to - 1) \o <<tabs[from]>> \o SubSeq(rest, to, Len(rest))

\* the tracker of the bar's items: the rect each id registered with last, the
\* active id, whether Left was down at the end of the frame before, and the
\* number of frames begun
Track_new ==
    [rects |-> <<>>, active_id |-> NULL, was_left |-> FALSE, frame |-> 0]

\* a register_rect that tests the pointer against the rect passed in
register_rect_current(m, trk, id, rect, kbd) ==
    LET inside == rect_contains(rect, m.mouse_pos)
        left == mouse_pressed(m, "Left")
        active == IF left /\ ~trk.was_left /\ inside /\ trk.active_id = NULL
                  THEN id ELSE trk.active_id
        isPressed == left /\ inside
        isReleased == trk.was_left /\ ~left /\ inside
        flags ==
            (IF inside THEN {"HOVERING", "MOUSE_OVER"} ELSE {})
            \cup (IF isPressed THEN {"PRESSED_L"} ELSE {})
            \cup (IF isPressed /\ mouse_dragging(m, "Left")
                  THEN {"DRAGGING_L"} ELSE {})
            \cup (IF isReleased THEN {"RELEASED_L", "CLICKED_L"} ELSE {})
            \cup (IF kbd THEN {"PRESSED_KEYBOARD"} ELSE {})
    IN  [sig |-> flags, used |-> rect,
         track |-> [trk EXCEPT !.rects = Insert(trk.rects, id, rect),
                               !.active_id = active]]

\* register_rect(id, rect) -> Signal: the pointer is tested against the rect
\* the id registered with in the frame before (the rect passed in when the id
\* is new), and the rect passed in is kept for the next frame; kbd is the
\* keyboard activation of the item in this frame
register_rect(m, trk, id, rect, kbd) ==
    LET prev == IF InCache(trk.rects, id) THEN trk.rects[id] ELSE rect
        inside == rect_contains(prev, m.mouse_pos)
        left == mouse_pressed(m, "Left")
        active == IF left /\ ~trk.was_left /\ inside /\ trk.active_id = NULL
                  THEN id ELSE trk.active_id
        isPressed == left /\ inside
        isReleased == trk.was_left /\ ~left /\ inside
        flags ==
            (IF inside THEN {"HOVERING", "MOUSE_OVER"} ELSE {})
            \cup (IF isPressed THEN {"PRESSED_L"} ELSE {})
            \cup (IF isPressed /\ mouse_dragging(m, "Left")
                  THEN {"DRAGGING_L"} ELSE {})
            \cup (IF isReleased THEN {"RELEASED_L", "CLICKED_L"} ELSE {})
            \cup (IF kbd THEN {"PRESSED_KEYBOARD"} ELSE {})
    IN  [sig |-> flags, used |-> prev,
         track |-> [trk EXCEPT !.rects = Insert(trk.rects, id, rect),
                               !.active_id = active]]

NoTabCall ==
    [id |-> NULL, found |-> FALSE, is_selected |-> FALSE, indx |-> 0,
     new_indx |-> 0, rect |-> BarRect, used |-> BarRect, known |-> FALSE,
     was_dragging |-> FALSE, draw_x |-> 0]

\* a press that selects the tab only when no drag is under way
tab_press_unless_dragging(tbar, s, id) ==
    IF pressed(s) /\ ~tbar.is_dragging
    THEN [tbar EXCEPT !.selected_tab_id = id]
    ELSE tbar

\* tabitem: "if sig.pressed() { tb.selected_tab_id = id; }"
tab_press(tbar, s, id) ==
    IF pressed(s) THEN [tbar EXCEPT !.selected_tab_id = id] ELSE tbar

\* a reorder that exchanges the tab with the one at its new index
tab_reorder_swapping(tbar, is_selected, item_x, width, indx) ==
    IF is_selected
    THEN [tbar EXCEPT !.tabs =
             move_tab_swapping(@, indx, get_insert_pos(@, item_x, width, indx))]
    ELSE tbar

\* tabitem: "if is_selected { let new_indx = tb.get_insert_pos(..);
\* tb.move_tab(indx, new_indx); }"
tab_reorder(tbar, is_selected, item_x, width, indx) ==
    IF is_selected
    THEN [tbar EXCEPT !.tabs =
             move_tab(@, indx, get_insert_pos(@, item_x, width, indx))]
    ELSE tbar

\* a clamp that keeps the tab's left edge, not the whole tab, inside the bar
clamp_item_x_left_edge(x, bar, width) == Min(Max(x, bar.min.x), bar.max.x)

\* tabitem: "item_pos.x = item_pos.x.max(tb_rect.min.x)
\*                                  .min(tb_rect.max.x - rect.width());"
clamp_item_x(x, bar, width) == Min(Max(x, bar.min.x), bar.max.x - width)

\* a drag start that takes the offset anew in every frame of the drag
tab_drag_start_every_frame(tbar, s, active_id, id, rect, m) ==
    IF dragging(s) /\ active_id = id
    THEN [tbar EXCEPT !.is_dragging = TRUE, !.selected_tab_id = id,
                      !.dragging_offset = rect.min.x - m.mouse_pos.x]
    ELSE tbar

\* tabitem: "if sig.dragging() && self.active_id == id && !tb.is_dragging {
\* tb.is_dragging = true; tb.selected_tab_id = id;
\* tb.dragging_offset = rect.min.x - self.mouse.pos.x; }"
tab_drag_start(tbar, s, active_id, id, rect, m) ==
    IF dragging(s) /\ active_id = id /\ ~tbar.is_dragging
    THEN [tbar EXCEPT !.is_dragging = TRUE, !.selected_tab_id = id,
                      !.dragging_offset = rect.min.x - m.mouse_pos.x]
    ELSE tbar

\* a drag end that takes the button held down for the release
tab_drag_end_while_pressed(tbar, is_selected, m) ==
    IF is_selected /\ mouse_pressed(m, "Left") /\ tbar.is_dragging
    THEN [tbar EXCEPT !.is_dragging = FALSE]
    ELSE tbar

\* tabitem: "if is_selected && !self.mouse.pressed(MouseBtn::Left) &&
\* tb.is_dragging { tb.is_dragging = false; }"
tab_drag_end(tbar, is_selected, m) ==
    IF is_selected /\ ~mouse_pressed(m, "Left") /\ tbar.is_dragging
    THEN [tbar EXCEPT !.is_dragging = FALSE]
    ELSE tbar

\* Context::tabitem(label), for the label's id and the width of its text:
\* the TabBar and the tracker it leaves, the Signal its register_rect call
\* returned, its return value, and a record of the call with the x the tab
\* is drawn at.  The draw calls after the clamp change none of these.
tabitem(tbar, m, trk, id, item_width, kbd) ==
    LET tb0 == IF tbar.tabs = <<>> THEN [tbar EXCEPT !.selected_tab_id = id]
               ELSE tbar
        is_selected == tb0.selected_tab_id = id
        indx == position(tb0.tabs, id)
        tabs1 == [tb0.tabs EXCEPT ![indx].width = item_width]
        item == tabs1[indx]
        rect == from_min_size(Vec2(BarRect.min.x + item.offset, BarRect.min.y),
                              Vec2(item.width, BarRect.max.y - BarRect.min.y))
        r == register_rect(m, trk, id, rect, kbd)
        tb1 == tab_press([tb0 EXCEPT !.tabs = tabs1], r.sig, id)
        tb2 == tab_drag_start(tb1, r.sig, r.track.active_id, id, rect, m)
        tb3 == tab_drag_end(tb2, is_selected, m)
        item_x == IF tb3.is_dragging /\ tb3.selected_tab_id = id
                  THEN tb3.dragging_offset + m.mouse_pos.x
                  ELSE rect.min.x
        new_indx == get_insert_pos(tb3.tabs, item_x, item.width, indx)
        tb4 == tab_reorder(tb3, is_selected, item_x, item.width, indx)
    IN  IF indx = 0
        THEN [tb |-> [tb0 EXCEPT !.tabs = Append(@, TabItem_new(id, item_width))],
              track |-> trk, sig |-> {}, ret |-> is_selected,
              log |-> [NoTabCall EXCEPT !.id = id, !.is_selected = is_selected]]
        ELSE [tb |-> tb4, track |-> r.track, sig |-> r.sig, ret |-> is_selected,
              log |-> [id |-> id, found |-> TRUE, is_selected |-> is_selected,
                       indx |-> indx, new_indx |-> new_indx,
                       rect |-> rect, used |-> r.used,
                       known |-> InCache(trk.rects, id),
                       was_dragging |-> tbar.is_dragging,
                       draw_x |-> clamp_item_x(item_x, BarRect, item.width)]]

InitTabs ==
    /\ tb = TabBar_new
    /\ tab_next = 0
    /\ track = Track_new
    /\ tab_log = NoTabCall

-----------------------------------------------------------------------------
(* The renderer of lib.rs: the surface texture of the frame being drawn    *)

\* what Surface::get_current_texture returns: a texture, or a SurfaceError
SurfaceResults == {"Ok", "Timeout", "Outdated", "Lost", "OutOfMemory", "Other"}

\* the widths and heights a window takes
Extents == 0..2

\* Renderer::new_async for a window of the given size
Renderer_new(size) ==
    [active_surface |-> FALSE,
     surface_config |-> size,
     framebuffer |-> Vec2(Max(size.x, 1), Max(size.y, 1))]

\* a present_frame that presents the texture and keeps holding it
present_frame_keeping_surface(r) == r

\* Renderer::present_frame
present_frame(r) == [r EXCEPT !.active_surface = FALSE]

\* Renderer::prepare_frame, get_current_texture returning texture: the
\* renderer it leaves and "panic", "Ok" or the error returned
prepare_frame(r, texture) ==
    IF r.active_surface THEN [r |-> r, ret |-> "panic"]
    ELSE IF texture # "Ok" THEN [r |-> r, ret |-> texture]
    ELSE [r |-> [r EXCEPT !.active_surface = TRUE], ret |-> "Ok"]

\* Renderer::surface_target: whether it gets past its check
surface_target_ok(r) == r.active_surface

\* Renderer::resize with WGPU::resize
Renderer_resize(r, width, height) ==
    [r EXCEPT !.surface_config = Vec2(Max(width, 1), Max(height, 1)),
              !.framebuffer = Vec2(Max(width, 1), Max(height, 1))]

\* AppSetup::init_app
App_new ==
    [last_size |-> Vec2(1, 1), status |-> "running",
     redraw |-> "none", texture |-> "Ok"]

-----------------------------------------------------------------------------
(* The pipeline registry of gpu.rs behind its mutex *)

PipelineIDs == {"ClearScreen", "DebugTriangle"}
Threads == {1, 2}
NoThread == 0

\* PipelineRegistry::new() in a fresh Mutex; 0 stands for no entry, other
\* numbers for the pipelines in order of creation
PipelineRegistry_new ==
    [map |-> [id \in PipelineIDs |-> 0], holder |-> NoThread, poisoned |-> FALSE]

Caller_idle == [pc |-> "idle", op |-> "none", id |-> "ClearScreen", ret |-> 0]

\* a mutex that lets every caller in
lockable_always(reg) == TRUE

\* Mutex::lock returns once no thread holds the guard
lockable(reg) == reg.holder = NoThread

\* PipelineRegistry::register
PipelineRegistry_register(reg, id, pipeline) == [reg EXCEPT !.map[id] = pipeline]

\* PipelineRegistry::get: Some(pipeline), or 0 for None
PipelineRegistry_get(reg, id) == reg.map[id]

\* Entry::or_insert_with finds an entry
occupied(reg, id) == reg.map[id] # 0

InitGpu ==
    /\ window_size = Vec2(1, 1)
    /\ renderer = Renderer_new(Vec2(1, 1))
    /\ app = App_new
    /\ pipeline_reg = PipelineRegistry_new
    /\ callers = [t \in Threads |-> Caller_idle]
    /\ gpu_log = [loads |-> [id \in PipelineIDs |-> 0], created |-> 0,
                  returned |-> [id \in PipelineIDs |-> 0]]

-----------------------------------------------------------------------------
(* The calls made on ui::State *)

Labels == {<<1>>, <<2>>}
Patches == {pFixedA, pGrow, pFitRow}

LayoutPatches == {pFixedA, pFixedB, pGrow, pFitRow, pFixedRow, pFitCol}

Running == status = "running" /\ phase = "open"

\* the scope a label is hashed under: the top of the id stack, or none
NoScope == [some |-> FALSE, id |-> NULL]
ScopeTop(ids) == IF ids = <<>> THEN NoScope ELSE [some |-> TRUE, id |-> Top(ids)]

\* State::begin_node(s, f): build_node_from_str, then push_parent(f(n))
begin_node(s, patch) ==
    /\ Running
    /\ n_begun < MaxBegins
    /\ Len(node_stack) < MaxDepth
    /\ \E id \in {node_id_from_str(id_stack, s)} :
       \E b \in {build_node_from_id(node_stack, cached_nodes, frame_index, id)} :
       \E n \in {Configure(patch, b.n)} :
           /\ n_begun' = n_begun + 1
           /\ last_call' = "begin_node"
           /\ declared' = [declared EXCEPT ![frame_index + 1] = Append(@, id)]
           /\ last_id' = id
           /\ idLog' = idLog \cup {[top |-> ScopeTop(id_stack), label |-> s,
                                    id |-> id, frame |-> frame_index]}
           /\ IF b.ok
              THEN /\ node_stack' = Append(b.stack, n)
                   /\ id_stack' = Append(id_stack, n.id)
                   /\ cached_nodes' = b.cache
                   /\ status' = status
              ELSE /\ status' = "panic"
                   /\ UNCHANGED <<node_stack, id_stack, cached_nodes>>
    /\ UNCHANGED <<roots, frame_index, rects, phase>>
    /\ UNCHANGED looked
    /\ UNCHANGED mouseVars
    /\ UNCHANGED tabVars
    /\ UNCHANGED gpuVars

\* State::end_node: pop_parent
end_node ==
    /\ Running
    /\ last_call' = "end_node"
    /\ id_stack' = IF id_stack = <<>> THEN id_stack ELSE Pop(id_stack)
    /\ IF node_stack = <<>>
       THEN UNCHANGED <<node_stack, cached_nodes, roots, status>>
       ELSE \E r \in {pop_parent(node_stack, cached_nodes, roots)} :
                /\ node_stack' = r.stack
                /\ cached_nodes' = r.cache
                /\ roots' = r.roots
                /\ status' = IF r.end = "ok" THEN status ELSE r.end
    /\ UNCHANGED <<frame_index, rects, phase, n_begun, declared, last_id, idLog>>
    /\ UNCHANGED looked
    /\ UNCHANGED mouseVars
    /\ UNCHANGED tabVars
    /\ UNCHANGED gpuVars

\* the end of a frame: finish() emits the draw list, then prune_nodes()
end_frame ==
    /\ Running
    /\ last_call' = "finish"
    /\ \E r \in {finish(node_stack, cached_nodes, roots)} :
           /\ rects' = IF r.end = "ok" THEN r.rects ELSE rects
           /\ roots' = r.roots
           /\ node_stack' = r.stack
           /\ status' = IF r.end = "ok" THEN status ELSE r.end
           /\ cached_nodes' = IF r.end = "ok"
                              THEN prune_nodes(cached_nodes, frame_index)
                              ELSE cached_nodes
           /\ phase' = IF r.end = "ok" THEN "ended" ELSE phase
    /\ UNCHANGED <<frame_index, id_stack, n_begun, declared, last_id, idLog>>
    /\ UNCHANGED looked
    /\ UNCHANGED mouseVars
    /\ UNCHANGED tabVars
    /\ UNCHANGED gpuVars

\* the start of the next frame: the frame counter advances
begin_frame ==
    /\ status = "running"
    /\ phase = "ended"
    /\ frame_index + 1 < MaxFrames
    /\ frame_index' = frame_index + 1
    /\ phase' = "open"
    /\ last_call' = "begin_frame"
    /\ UNCHANGED <<node_stack, cached_nodes, roots, id_stack, status, rects,
                   n_begun, declared, last_id, idLog>>
    /\ UNCHANGED looked
    /\ UNCHANGED mouseVars
    /\ UNCHANGED tabVars
    /\ UNCHANGED gpuVars

InitUi ==
    /\ node_stack = <<>>
    /\ cached_nodes = [k \in {} |-> Node_NULL]
    /\ roots = <<>>
    /\ frame_index = 0
    /\ id_stack = <<>>
    /\ status = "running"
    /\ rects = <<>>
    /\ phase = "open"
    /\ n_begun = 0
    /\ declared = [f \in 1..MaxFrames |-> <<>>]
    /\ last_call = "new"
    /\ last_id = NULL
    /\ idLog = {}
    /\ looked = None

InitMouseIdle ==
    /\ mouse = MouseState_new
    /\ clock = 0
    /\ events = <<>>
    /\ tracker = Tracker_new
    /\ sig = {}

Init == InitUi /\ InitMouseIdle /\ InitTabs /\ InitGpu

Next ==
    \/ \E s \in Labels, f \in Patches : begin_node(s, f)
    \/ end_node
    \/ end_frame
    \/ begin_frame

Spec == Init /\ [][Next]_vars

-----------------------------------------------------------------------------
(* Lookups by the caller: cached_node is public *)

\* the ids a caller can hold: NULL, and every id begin_node has resolved
LookupIds == {NULL} \cup {r.id : r \in idLog}

\* a call of State::cached_node(id) between the calls that build the frame
cached_node_call(id) ==
    /\ status = "running"
    /\ last_call' = "cached_node"
    /\ last_id' = id
    /\ \E r \in {cached_node(cached_nodes, id)} :
           /\ status' = IF r.end = "ok" THEN status ELSE r.end
           /\ looked' = IF r.end = "ok" THEN Some(r.n) ELSE looked
    /\ UNCHANGED <<node_stack, cached_nodes, roots, frame_index, id_stack, rects,
                   phase, n_begun, declared, idLog>>
    /\ UNCHANGED mouseVars
    /\ UNCHANGED tabVars
    /\ UNCHANGED gpuVars

NextLookup ==
    \/ \E s \in Labels : begin_node(s, pFixedA)
    \/ end_node
    \/ end_frame
    \/ begin_frame
    \/ \E id \in LookupIds : cached_node_call(id)

SpecLookup == Init /\ [][NextLookup]_vars

-----------------------------------------------------------------------------
(* Identity alone: the scope stack as begin_node and end_node drive it *)

IdBytes == {1, 2}

\* the labels of at most n bytes
LabelsUpTo(n) == UNION {[1..k -> IdBytes] : k \in 0..n}

\* the identity half of begin_node: node_id_from_str, then push_parent's
\* id_stack.push
id_begin(s) ==
    /\ Len(id_stack) < MaxDepth
    /\ last_id' = node_id_from_str(id_stack, s)
    /\ id_stack' = Append(id_stack, last_id')
    /\ last_call' = "begin_node"
    /\ UNCHANGED <<node_stack, cached_nodes, roots, frame_index, status, rects,
                   phase, n_begun, declared, idLog>>
    /\ UNCHANGED looked
    /\ UNCHANGED mouseVars
    /\ UNCHANGED tabVars
    /\ UNCHANGED gpuVars

\* the identity half of end_node: pop_parent's id_stack.pop
id_end ==
    /\ id_stack # <<>>
    /\ id_stack' = Pop(id_stack)
    /\ last_call' = "end_node"
    /\ UNCHANGED <<node_stack, cached_nodes, roots, frame_index, status, rects,
                   phase, n_begun, declared, last_id, idLog>>
    /\ UNCHANGED looked
    /\ UNCHANGED mouseVars
    /\ UNCHANGED tabVars
    /\ UNCHANGED gpuVars

NextId ==
    \/ \E s \in LabelsUpTo(MaxLabelLen) : id_begin(s)
    \/ id_end

SpecId == Init /\ [][NextId]_vars

-----------------------------------------------------------------------------
(* One frame built from labels some of which hash, under a scope, to the   *)
(* id of that scope's parent                                               *)

ScopeLabels == {<< >>, <<1>>, <<2>>, <<1, 2>>}

NextScope ==
    \/ \E s \in ScopeLabels : begin_node(s, pGrow)
    \/ end_node
    \/ end_frame

SpecScope == Init /\ [][NextScope]_vars

\* the label of the next call site: the position among its siblings
NextLabel ==
    <<(IF node_stack = <<>> THEN Len(roots) ELSE Top(node_stack).n_children) + 1>>

NextLayout ==
    \/ \E f \in LayoutPatches : begin_node(NextLabel, f)
    \/ end_node
    \/ end_frame

\* one frame, every call site with a label of its own, every sizing closure
SpecLayout == Init /\ [][NextLayout]_vars

-----------------------------------------------------------------------------
(* The pointer events and the frames of the interaction specification *)

Positions == {Vec2(0, 0), Vec2(3, 4), Vec2(200, 10)}
DrivenButtons == {"Left"}
Ticks == {100, 151}

\* the window's CursorMoved event
cursor_moved(p) ==
    /\ p # mouse.mouse_pos
    /\ mouse' = set_mouse_pos(mouse, p.x, p.y)
    /\ UNCHANGED <<clock, events, tracker, sig>>
    /\ UNCHANGED uiVars
    /\ UNCHANGED tabVars
    /\ UNCHANGED gpuVars

\* the window's MouseInput event
mouse_input(b, v) ==
    /\ Len(events) < MaxEvents
    /\ mouse' = set_button_press(mouse, clock, b, v)
    /\ events' = IF mouse_pressed(mouse, b) # v
                 THEN Append(events, [button |-> b, pressed |-> v, t |-> clock,
                                      pos |-> mouse.mouse_pos,
                                      double |-> double_clicked(mouse', b)])
                 ELSE events
    /\ UNCHANGED <<clock, tracker, sig>>
    /\ UNCHANGED uiVars
    /\ UNCHANGED tabVars
    /\ UNCHANGED gpuVars

\* time passes
tick(d) ==
    /\ clock + d <= MaxClock
    /\ clock' = clock + d
    /\ UNCHANGED <<mouse, events, tracker, sig>>
    /\ UNCHANGED uiVars
    /\ UNCHANGED tabVars
    /\ UNCHANGED gpuVars

\* one frame: the node is registered and its Signal returned
register_item ==
    /\ sig' = register(mouse, tracker.left)
    /\ tracker' = [was_left |-> tracker.left,
                   was_inside |-> tracker.inside,
                   left |-> mouse_pressed(mouse, "Left"),
                   inside |-> rect_contains(ItemRect, mouse.mouse_pos)]
    /\ UNCHANGED <<mouse, clock, events>>
    /\ UNCHANGED uiVars
    /\ UNCHANGED tabVars
    /\ UNCHANGED gpuVars

NextMouse ==
    \/ \E p \in Positions : cursor_moved(p)
    \/ \E b \in DrivenButtons, v \in BOOLEAN : mouse_input(b, v)
    \/ \E d \in Ticks : tick(d)
    \/ register_item

SpecMouse == Init /\ [][NextMouse]_vars

\* the recorder's events without the frames that register the item
NextClicks ==
    \/ \E p \in Positions : cursor_moved(p)
    \/ \E b \in DrivenButtons, v \in BOOLEAN : mouse_input(b, v)
    \/ \E d \in Ticks : tick(d)

SpecClicks == Init /\ [][NextClicks]_vars

-----------------------------------------------------------------------------
(* The recorder alone, with two of its buttons in use: events holds the    *)
(* one call made last, whether or not it changed anything                  *)

\* a point at the drag threshold from the origin, and one beyond it
ButtonPositions == {Vec2(0, 0), Vec2(3, 4), Vec2(4, 4)}

\* MouseState::set_mouse_pos(x, y)
button_cursor_moved(p) ==
    /\ mouse' = set_mouse_pos(mouse, p.x, p.y)
    /\ events' = <<[call |-> "set_mouse_pos", button |-> "Left",
                    pressed |-> FALSE]>>
    /\ UNCHANGED <<clock, tracker, sig>>
    /\ UNCHANGED uiVars
    /\ UNCHANGED tabVars
    /\ UNCHANGED gpuVars

\* MouseState::set_button_press(button, pressed)
button_input(b, v) ==
    /\ mouse' = set_button_press(mouse, clock, b, v)
    /\ events' = <<[call |-> "set_button_press", button |-> b,
                    pressed |-> v]>>
    /\ UNCHANGED <<clock, tracker, sig>>
    /\ UNCHANGED uiVars
    /\ UNCHANGED tabVars
    /\ UNCHANGED gpuVars

\* the buttons that get events; Middle stays as MouseState::new left it
PressedButtons == {"Left", "Right"}

\* the clock moves in steps longer than the double-click window
ButtonTicks == {151}

NextButtons ==
    \/ \E p \in ButtonPositions : button_cursor_moved(p)
    \/ \E b \in PressedButtons, v \in BOOLEAN : button_input(b, v)
    \/ \E d \in ButtonTicks : tick(d)

SpecButtons == Init /\ [][NextButtons]_vars

-----------------------------------------------------------------------------
(* The frames of a tab bar and the pointer events between them *)

TabPositions == {Vec2(10, 10), Vec2(45, 10), Vec2(85, 10), Vec2(160, 10)}

InBar == tab_next # 0

\* CursorMoved between two frames
tab_cursor_moved(p) ==
    /\ ~InBar
    /\ p # mouse.mouse_pos
    /\ mouse' = set_mouse_pos(mouse, p.x, p.y)
    /\ UNCHANGED <<clock, events, tracker, sig>>
    /\ UNCHANGED tabVars
    /\ UNCHANGED gpuVars
    /\ UNCHANGED uiVars

\* MouseInput for the Left button between two frames
tab_mouse_input(v) ==
    /\ ~InBar
    /\ mouse_pressed(mouse, "Left") # v
    /\ mouse' = set_button_press(mouse, clock, "Left", v)
    /\ UNCHANGED <<clock, events, tracker, sig>>
    /\ UNCHANGED tabVars
    /\ UNCHANGED gpuVars
    /\ UNCHANGED uiVars

\* Context::begin_tabbar: the bar's entry is created on the first call and
\* its tabs are laid out
begin_tabbar ==
    /\ ~InBar
    /\ track.frame < MaxTabFrames
    /\ tb' = [tb EXCEPT !.tabs = layout_tabs(tb.tabs)]
    /\ tab_next' = 1
    /\ track' = [track EXCEPT !.frame = @ + 1]
    /\ UNCHANGED tab_log
    /\ UNCHANGED mouseVars
    /\ UNCHANGED uiVars
    /\ UNCHANGED gpuVars

\* the next tabitem call of the frame
tabitem_call(kbd) ==
    /\ tab_next \in 1..Len(TabLabels)
    /\ \E r \in {tabitem(tb, mouse, track, TabLabels[tab_next],
                         TabWidths[tab_next], kbd)} :
          /\ tb' = r.tb
          /\ track' = r.track
          /\ sig' = r.sig
          /\ tab_log' = r.log
    /\ tab_next' = tab_next + 1
    /\ UNCHANGED <<mouse, clock, events, tracker>>
    /\ UNCHANGED uiVars
    /\ UNCHANGED gpuVars

\* Context::end_tabbar, and the end of the frame: the tracker latches the
\* button and gives up the active id once the button is up
end_tabbar ==
    /\ tab_next = Len(TabLabels) + 1
    /\ tab_next' = 0
    /\ track' = [track EXCEPT
                    !.was_left = mouse_pressed(mouse, "Left"),
                    !.active_id = IF mouse_pressed(mouse, "Left") THEN @ ELSE NULL]
    /\ UNCHANGED <<tb, tab_log>>
    /\ UNCHANGED mouseVars
    /\ UNCHANGED uiVars
    /\ UNCHANGED gpuVars

NextTabs ==
    \/ \E p \in TabPositions : tab_cursor_moved(p)
    \/ \E v \in BOOLEAN : tab_mouse_input(v)
    \/ begin_tabbar
    \/ \E kbd \in BOOLEAN : tabitem_call(kbd)
    \/ end_tabbar

SpecTabs == Init /\ [][NextTabs]_vars

-----------------------------------------------------------------------------
(* Frames that declare any of the tabs: a caller may leave a tab out of a  *)
(* frame                                                                   *)

\* the frame makes no tabitem call for the next label
tab_left_out ==
    /\ tab_next \in 1..Len(TabLabels)
    /\ tab_next' = tab_next + 1
    /\ tab_log' = NoTabCall
    /\ UNCHANGED <<tb, track>>
    /\ UNCHANGED mouseVars
    /\ UNCHANGED uiVars
    /\ UNCHANGED gpuVars

\* a point over the first tab's place and one over the second's
TabListPositions == {Vec2(10, 10), Vec2(85, 10)}

NextTabList ==
    \/ \E p \in TabListPositions : tab_cursor_moved(p)
    \/ \E v \in BOOLEAN : tab_mouse_input(v)
    \/ begin_tabbar
    \/ \E kbd \in BOOLEAN : tabitem_call(kbd)
    \/ tab_left_out
    \/ end_tabbar

SpecTabList == Init /\ [][NextTabList]_vars

-----------------------------------------------------------------------------
(* The window events App::on_window_event handles *)

\* the window takes a new size
window_resizes(w, h) ==
    /\ app.status = "running"
    /\ window_size # Vec2(w, h)
    /\ window_size' = Vec2(w, h)
    /\ UNCHANGED <<renderer, app, pipeline_reg, callers, gpu_log>>
    /\ UNCHANGED uiVars
    /\ UNCHANGED mouseVars
    /\ UNCHANGED tabVars

\* WindowEvent::RedrawRequested, with what get_current_texture returns
redraw_requested(texture) ==
    /\ app.status = "running"
    /\ \E p \in {prepare_frame(renderer, texture)} :
          IF p.ret = "panic"
          THEN /\ app' = [app EXCEPT !.status = "panic: prepare_frame called with active surface",
                                     !.redraw = "aborted", !.texture = texture]
               /\ renderer' = p.r
          ELSE IF p.ret \in {"Lost", "Outdated"}
          THEN /\ renderer' = Renderer_resize(p.r, window_size.x, window_size.y)
               /\ app' = [app EXCEPT !.redraw = "resized", !.texture = texture]
          ELSE IF p.ret # "Ok"
          THEN /\ app' = [app EXCEPT !.status = "panic: prepare_frame: error",
                                     !.redraw = "aborted", !.texture = texture]
               /\ renderer' = p.r
          ELSE IF ~surface_target_ok(p.r)
          THEN /\ app' = [app EXCEPT !.status = "panic: prepare_frame must be called before surface_target",
                                     !.redraw = "aborted", !.texture = texture]
               /\ renderer' = p.r
          ELSE /\ renderer' = present_frame(p.r)
               /\ app' = [app EXCEPT !.redraw = "presented", !.texture = texture]
    /\ UNCHANGED <<window_size, pipeline_reg, callers, gpu_log>>
    /\ UNCHANGED uiVars
    /\ UNCHANGED mouseVars
    /\ UNCHANGED tabVars

\* WindowEvent::Resized
resized(width, height) ==
    /\ app.status = "running"
    /\ app' = [app EXCEPT !.last_size = Vec2(Max(width, 1), Max(height, 1))]
    /\ renderer' = Renderer_resize(renderer, Max(width, 1), Max(height, 1))
    /\ UNCHANGED <<window_size, pipeline_reg, callers, gpu_log>>
    /\ UNCHANGED uiVars
    /\ UNCHANGED mouseVars
    /\ UNCHANGED tabVars

\* WindowEvent::CloseRequested: event_loop.exit()
close_requested ==
    /\ app.status = "running"
    /\ app' = [app EXCEPT !.status = "exited"]
    /\ UNCHANGED <<renderer, window_size, pipeline_reg, callers, gpu_log>>
    /\ UNCHANGED uiVars
    /\ UNCHANGED mouseVars
    /\ UNCHANGED tabVars

NextRenderer ==
    \/ \E w \in Extents, h \in Extents : window_resizes(w, h)
    \/ \E texture \in SurfaceResults : redraw_requested(texture)
    \/ \E w \in Extents, h \in Extents : resized(w, h)
    \/ close_requested

SpecRenderer == Init /\ [][NextRenderer]_vars

-----------------------------------------------------------------------------
(* Threads that call the pipeline registry through WGPU *)

\* the thread enters one of WGPU's registry methods; register_pipeline is
\* handed a pipeline its caller has created
call_registry(t, op, id) ==
    /\ callers[t].pc = "idle"
    /\ op = "register_pipeline" => gpu_log.created < MaxPipelines
    /\ callers' = [callers EXCEPT ![t] =
                      [pc |-> "lock", op |-> op, id |-> id,
                       ret |-> IF op = "register_pipeline"
                               THEN gpu_log.created + 1 ELSE 0]]
    /\ gpu_log' = IF op = "register_pipeline"
                  THEN [gpu_log EXCEPT !.created = @ + 1]
                  ELSE gpu_log
    /\ UNCHANGED <<renderer, app, window_size, pipeline_reg>>
    /\ UNCHANGED uiVars
    /\ UNCHANGED mouseVars
    /\ UNCHANGED tabVars

\* self.pipeline_reg.lock().unwrap(): the guard, or a panic when a thread
\* has panicked while holding it
lock_registry(t) ==
    /\ callers[t].pc = "lock"
    /\ lockable(pipeline_reg)
    /\ IF pipeline_reg.poisoned
       THEN /\ callers' = [callers EXCEPT ![t].pc = "panicked"]
            /\ UNCHANGED pipeline_reg
       ELSE /\ callers' = [callers EXCEPT ![t].pc = "locked"]
            /\ pipeline_reg' = [pipeline_reg EXCEPT !.holder = t]
    /\ UNCHANGED <<renderer, app, window_size, gpu_log>>
    /\ UNCHANGED uiVars
    /\ UNCHANGED mouseVars
    /\ UNCHANGED tabVars

\* register_pipeline and get_pipeline under the guard
registry_access(t) ==
    /\ callers[t].pc = "locked"
    /\ callers[t].op \in {"register_pipeline", "get_pipeline"}
    /\ IF callers[t].op = "register_pipeline"
       THEN /\ pipeline_reg' = PipelineRegistry_register(pipeline_reg, callers[t].id, callers[t].ret)
            /\ callers' = [callers EXCEPT ![t].pc = "unlock"]
            /\ gpu_log' = [gpu_log EXCEPT !.returned[callers[t].id] = 0]
       ELSE /\ callers' = [callers EXCEPT ![t].pc = "unlock",
                                          ![t].ret = PipelineRegistry_get(pipeline_reg, callers[t].id)]
            /\ UNCHANGED <<pipeline_reg, gpu_log>>
    /\ UNCHANGED <<renderer, app, window_size>>
    /\ UNCHANGED uiVars
    /\ UNCHANGED mouseVars
    /\ UNCHANGED tabVars

\* get_or_insert_with: map.entry(id), and the clone of an entry found
registry_entry(t) ==
    /\ callers[t].pc = "locked"
    /\ callers[t].op = "get_or_init_pipeline"
    /\ IF occupied(pipeline_reg, callers[t].id)
       THEN /\ callers' = [callers EXCEPT ![t].pc = "unlock",
                                          ![t].ret = PipelineRegistry_get(pipeline_reg, callers[t].id)]
            /\ gpu_log' = [gpu_log EXCEPT !.returned[callers[t].id] =
                                              PipelineRegistry_get(pipeline_reg, callers[t].id)]
       ELSE /\ callers' = [callers EXCEPT ![t].pc = "load"]
            /\ UNCHANGED gpu_log
    /\ UNCHANGED <<renderer, app, window_size, pipeline_reg>>
    /\ UNCHANGED uiVars
    /\ UNCHANGED mouseVars
    /\ UNCHANGED tabVars

\* or_insert_with(|| Arc::new(load_fn())): load_fn returns a pipeline, which
\* is inserted and cloned, or panics, which drops the guard and poisons the
\* mutex
registry_load(t, loaded) ==
    /\ callers[t].pc = "load"
    /\ IF loaded
       THEN /\ pipeline_reg' = PipelineRegistry_register(pipeline_reg, callers[t].id, gpu_log.created + 1)
            /\ callers' = [callers EXCEPT ![t].pc = "unlock",
                                          ![t].ret = gpu_log.created + 1]
            /\ gpu_log' = [gpu_log EXCEPT !.loads[callers[t].id] = @ + 1,
                                          !.created = @ + 1,
                                          !.returned[callers[t].id] = gpu_log.created + 1]
       ELSE /\ pipeline_reg' = [pipeline_reg EXCEPT !.holder = NoThread,
                                                    !.poisoned = TRUE]
            /\ callers' = [callers EXCEPT ![t].pc = "panicked"]
            /\ gpu_log' = [gpu_log EXCEPT !.loads[callers[t].id] = @ + 1]
    /\ UNCHANGED <<renderer, app, window_size>>
    /\ UNCHANGED uiVars
    /\ UNCHANGED mouseVars
    /\ UNCHANGED tabVars

\* the guard is dropped and the method returns
unlock_registry(t) ==
    /\ callers[t].pc = "unlock"
    /\ pipeline_reg' = [pipeline_reg EXCEPT !.holder = NoThread]
    /\ callers' = [callers EXCEPT ![t].pc = "idle"]
    /\ UNCHANGED <<renderer, app, window_size, gpu_log>>
    /\ UNCHANGED uiVars
    /\ UNCHANGED mouseVars
    /\ UNCHANGED tabVars

RegistryOps == {"register_pipeline", "get_pipeline", "get_or_init_pipeline"}

NextPipelines ==
    \/ \E t \in Threads, op \in RegistryOps, id \in PipelineIDs : call_registry(t, op, id)
    \/ \E t \in Threads : lock_registry(t)
    \/ \E t \in Threads : registry_access(t)
    \/ \E t \in Threads : registry_entry(t)
    \/ \E t \in Threads, loaded \in BOOLEAN : registry_load(t, loaded)
    \/ \E t \in Threads : unlock_registry(t)

SpecPipelines == Init /\ [][NextPipelines]_vars

-----------------------------------------------------------------------------
(* Properties *)

Range(seq) == {seq[i] : i \in 1..Len(seq)}

NoDuplicates(seq) == Cardinality(Range(seq)) = Len(seq)

\* the ids begun in the current frame
DeclaredNow == declared[frame_index + 1]

\* every node begun in the current frame has been ended and is in the store
FrameBuilt ==
    /\ status = "running"
    /\ node_stack = <<>>
    /\ DeclaredNow # <<>>
    /\ NoDuplicates(DeclaredNow)
    /\ Range(DeclaredNow) \subseteq DOMAIN cached_nodes

Kids(p) == children_of(cached_nodes, p)

IsLeaf(n) == n.n_children = 0 /\ n.first = NULL

RECURSIVE SumFixed(_, _)
SumFixed(ids, a) ==
    IF ids = <<>> THEN 0
    ELSE At(cached_nodes[Head(ids)].sizing_typ, a).v + SumFixed(Tail(ids), a)

\* a parent whose children are all leaves of sizing typ t on axis a, without
\* padding of their own
ParentOf(p, a, typs) ==
    /\ p.n_children >= 1
    /\ Kids(p).ok
    /\ Len(Kids(p).ids) = p.n_children
    /\ \A i \in 1..Len(Kids(p).ids) :
          LET c == cached_nodes[Kids(p).ids[i]]
          IN  /\ At(c.sizing_typ, a).typ \in typs
              /\ c.padding = Padding_ZERO
              /\ IsLeaf(c)
              /\ c.parent = p.id

\* C1: a Fit parent with layout axis X whose N >= 1 children are Fixed on X
\* resolves to the width  left + right + (N-1)*gap + w1 + ... + wN,
\* whether it is a frame root or nested.
C1_FitWidth ==
    FrameBuilt =>
        \A id \in Range(DeclaredNow) :
            LET p == cached_nodes[id]
            IN  (/\ p.layout_direction = "X"
                 /\ p.sizing_typ.x = Fit
                 /\ ParentOf(p, "X", {"Fixed"}))
                => p.size.x = p.padding.left + p.padding.right
                              + (p.n_children - 1) * p.child_gap
                              + SumFixed(Kids(p).ids, "X")

\* C2: when every child of a parent is Grow on the parent's layout axis and
\* has no content, each child ends the frame with the extent
\* (W - padding - (M-1)*gap) / M on that axis.
C2_GrowEqual ==
    FrameBuilt =>
        \A id \in Range(DeclaredNow) :
            LET p == cached_nodes[id]
                a == p.layout_direction
                left == At(p.size, a) - sum_along_axis(p.padding, a)
                        - (p.n_children - 1) * p.child_gap
            IN  (/\ ParentOf(p, a, {"Grow"})
                 /\ left >= 0
                 /\ left % p.n_children = 0)
                => \A i \in 1..Len(Kids(p).ids) :
                      At(cached_nodes[Kids(p).ids[i]].size, a) * p.n_children = left

\* the extent the children of p take on axis a in store c: padding, the
\* children's extents and the gaps between them
Used(c, p, a) ==
    sum_along_axis(p.padding, a)
    + SumSizes(c, children_of(c, p).ids, a)
    + (p.n_children - 1) * p.child_gap

\* C3: the grow pass run when a root is ended never makes padding + the
\* children's extents + gaps exceed the root's size on its layout axis, when
\* they did not exceed it before the pass.
C3_GrowNoOverflow ==
    [][(/\ Running
        /\ Len(node_stack) = 1
        /\ last_call' = "end_node"
        /\ status' = "running"
        /\ Top(node_stack).parent = NULL
        /\ Top(node_stack).id \in DOMAIN cached_nodes'
        /\ children_of(cached_nodes, Top(node_stack)).ok
        /\ Top(node_stack).n_children >= 1)
       => LET p == cached_nodes'[Top(node_stack).id]
              a == p.layout_direction
          IN  Used(cached_nodes, p, a) <= At(p.size, a)
              => Used(cached_nodes', p, a) <= At(p.size, a)]_vars

\* the number of positions of seq that hold v
Count(seq, v) == Cardinality({i \in 1..Len(seq) : seq[i] = v})

\* C4: finish() returns exactly one rectangle for each node declared in the
\* frame, with min = the node's position and max = position + size.
C4_OneRectPerNode ==
    (FrameBuilt /\ phase = "ended" /\ last_call = "finish") =>
        /\ Len(rects) = Len(DeclaredNow)
        /\ \A id \in Range(DeclaredNow) :
              LET r == as_rect_inst(cached_nodes[id])
              IN  Count(rects, r) =
                  Cardinality({k \in Range(DeclaredNow) :
                                  as_rect_inst(cached_nodes[k]) = r})

\* C5: after a frame has been finalized the store holds only nodes touched in
\* that frame; a node declared in the frame before and not begun in this
\* one is gone.
C5_Pruned ==
    (status = "running" /\ phase = "ended") =>
        /\ \A k \in DOMAIN cached_nodes :
              cached_nodes[k].last_frame_used = frame_index
        /\ frame_index >= 1 =>
              \A id \in Range(declared[frame_index]) \ Range(DeclaredNow) :
                  id \notin DOMAIN cached_nodes

\* a second frame has been finalized in which a node of the first frame, which
\* was in the store, was not begun
C5_Witness ==
    /\ status = "running"
    /\ phase = "ended"
    /\ frame_index = 1
    /\ DeclaredNow # <<>>
    /\ Range(declared[1]) \ Range(DeclaredNow) # {}
    /\ Len(rects) >= 1

\* C6: finish() called with a non-empty build stack aborts: nothing is
\* returned, nothing is recovered.
C6_FinishUnbalancedAborts ==
    [][(Running /\ last_call' = "finish" /\ node_stack # <<>>)
       => (/\ status' = "panic"
           /\ rects' = rects
           /\ node_stack' = node_stack
           /\ cached_nodes' = cached_nodes
           /\ phase' = "open")]_vars

\* finish() was called in the middle of a node and the run has aborted
C6_Witness ==
    /\ status = "panic"
    /\ last_call = "finish"
    /\ node_stack # <<>>
    /\ cached_nodes # [k \in {} |-> Node_NULL]

\* C7: two node_id_from_str calls with the same scope top (or both without
\* a scope) and the same label return the same id, in whatever frame and
\* with whatever store they are made.
C7_IdDeterministic ==
    \A e1 \in idLog : \A e2 \in idLog :
        (e1.top = e2.top /\ e1.label = e2.label) => e1.id = e2.id

\* the same label was resolved under the same scope in two frames, the second
\* time with a store that holds the nodes of the first
C7_Witness ==
    /\ cached_nodes # [k \in {} |-> Node_NULL]
    /\ \E e1 \in idLog : \E e2 \in idLog :
          /\ e1.top = e2.top
          /\ e1.label = e2.label
          /\ e1.top.some
          /\ e1.frame # e2.frame

\* C8: no label under any scope resolves to NodeId::NULL.
C8_IdNeverNull ==
    last_call = "begin_node" => last_id # NULL

\* C9: for a node registered every frame with the same rectangle, the frame
\* in which Left goes from not pressed to pressed with the pointer inside the
\* rectangle returns a Signal with pressed() true and clicked() false, and the
\* next frame, with the pointer still inside and Left released, returns a
\* Signal with clicked() true and dragging() false.
C9_PressThenClick ==
    /\ (~tracker.was_left /\ tracker.left /\ tracker.inside)
          => (pressed(sig) /\ ~clicked(sig))
    /\ (tracker.was_left /\ tracker.was_inside /\ ~tracker.left /\ tracker.inside)
          => (clicked(sig) /\ ~dragging(sig))

WithinWindow(a, b) == b - a <= double_click_time

-----------------------------------------------------------------------------
(* Properties of the tab bar *)

TabIds(tabs) == [i \in 1..Len(tabs) |-> tabs[i].id]

Without(ids, id) == SelectSeq(ids, LAMBDA x : x # id)

RECURSIVE BarWidth(_)
\* the widths of the tabs and the gaps between them
BarWidth(tabs) ==
    IF tabs = <<>> THEN 0
    ELSE Head(tabs).width + (IF Len(tabs) > 1 THEN TabGap ELSE 0)
         + BarWidth(Tail(tabs))

\* a step that is a tabitem call for a tab already in the list
TabitemStep == tab_next \in 1..Len(TabLabels) /\ tab_next' = tab_next + 1
                  /\ tab_log'.found

C12_PressSelects ==
    [][(TabitemStep /\ pressed(sig')) => tb'.selected_tab_id = tab_log'.id]_vars

C12_Witness ==
    /\ tab_log.found /\ pressed(sig) /\ ~tab_log.is_selected
    /\ tb.is_dragging /\ tb.selected_tab_id = tab_log.id
    /\ tab_next > 1 /\ TabLabels[tab_next - 1] = tab_log.id

-----------------------------------------------------------------------------
(* Properties of the frame builder and the sizing engine, continued *)

\* the fields a configure closure declares
Style(n) ==
    [sizing_typ |-> n.sizing_typ, layout_direction |-> n.layout_direction,
     padding |-> n.padding, child_gap |-> n.child_gap,
     fixed_pos |-> n.fixed_pos, background_color |-> n.background_color]

\* C14: the sizing modes, padding, gap, layout axis, colour and fixed position
\* of the node begin_node has just pushed are those its configure closure
\* gives a fresh node: nothing an earlier frame's closure set for the same id
\* is left in it.  (Stated for the first begin_node of an id in its frame.)
C14_StyleRedeclared ==
    (/\ status = "running" /\ last_call = "begin_node" /\ node_stack # <<>>
     /\ Count(DeclaredNow, Top(node_stack).id) = 1) =>
        \E patch \in Patches :
            Style(Top(node_stack)) = Style(Configure(patch, Node_NULL))

\* C15: a lookup by the NULL id, or by an id that is no key of the node store,
\* aborts and returns nothing; a lookup by any other id returns the stored node
C15_LookupAborts ==
    [][(last_call' = "cached_node" /\ status = "running") =>
        IF last_id' = NULL \/ last_id' \notin DOMAIN cached_nodes
        THEN status' = "panic" /\ looked' = looked
        ELSE status' = "running" /\ looked' = Some(cached_nodes[last_id'])]_vars

\* a lookup by the id of a node that is still being built (taken out of the
\* store by begin_node, not yet put back by end_node) has aborted
C15_Witness ==
    /\ last_call = "cached_node"
    /\ status = "panic"
    /\ last_id # NULL
    /\ last_id \in Range(id_stack)
    /\ last_id \notin DOMAIN cached_nodes
    /\ DOMAIN cached_nodes # {}

\* an end_node call that pops a frame root with children and returns
RootEnded ==
    /\ Running
    /\ Len(node_stack) = 1
    /\ last_call' = "end_node"
    /\ status' = "running"
    /\ Top(node_stack).parent = NULL
    /\ Top(node_stack).id \in DOMAIN cached_nodes'
    /\ children_of(cached_nodes, Top(node_stack)).ok
    /\ Top(node_stack).n_children >= 1

\* the children of the root being ended keep everything but size and pos, and
\* their extent on axis a changes only for a Grow child, and only upward
GrowTouchesOnlyGrow(p) ==
    \A i \in 1..Len(children_of(cached_nodes, p).ids) :
        LET id == children_of(cached_nodes, p).ids[i]
            b == cached_nodes[id]
            c == cached_nodes'[id]
        IN  /\ [c EXCEPT !.size = b.size, !.pos = b.pos] = b
            /\ \A a \in {"X", "Y"} :
                  /\ At(c.size, a) >= At(b.size, a)
                  /\ At(b.sizing_typ, a) # Grow => At(c.size, a) = At(b.size, a)

\* no child's extent on axis a has changed
ExtentsKept(p, a) ==
    \A i \in 1..Len(children_of(cached_nodes, p).ids) :
        LET id == children_of(cached_nodes, p).ids[i]
        IN  At(cached_nodes'[id].size, a) = At(cached_nodes[id].size, a)

\* C16: the grow pass changes only the extent of Grow children on its axis,
\* and only upward; Fixed and Fit siblings are untouched; and when the space
\* left on the parent's layout axis (its size less padding, children and
\* gaps) is zero or negative no extent changes at all
C16_GrowOnlyGrowUpward ==
    [][RootEnded =>
        LET p == cached_nodes'[Top(node_stack).id]
            a == p.layout_direction
        IN  /\ GrowTouchesOnlyGrow(p)
            /\ At(p.size, a) - Used(cached_nodes, p, a) <= 0 => ExtentsKept(p, a)]_vars

\* the part of C16 that does not depend on how the leftover space is computed
C16_Part_OnlyGrowUpward ==
    [][RootEnded => GrowTouchesOnlyGrow(cached_nodes'[Top(node_stack).id])]_vars

\* C17: finish() called with an empty build stack returns, whatever the shape
\* of the tree: its loops never run forever and its queue stays bounded
C17_FinishTerminates == ~(last_call = "finish" /\ status = "hang")

\* C18: the water-filling loop of the grow pass ends for every parent, also
\* when the Grow children start at unequal extents and the leftover space
\* cannot lift the smallest to the next-smallest
C18_GrowTerminates == ~(last_call = "end_node" /\ status = "hang")

\* the children of p are laid out from p's position: the first at the leading
\* padding, each next one after the one before plus the gap along p's layout
\* axis, all of them at the leading padding on the other axis
ChildrenPlaced(p) ==
    LET ids == Kids(p).ids
        a == p.layout_direction
        x == IF a = "X" THEN "Y" ELSE "X"
        lead == Vec2(p.pos.x + p.padding.left, p.pos.y + p.padding.top)
    IN  \A i \in 1..Len(ids) :
            LET c == cached_nodes[ids[i]]
            IN  /\ At(c.pos, x) = At(lead, x)
                /\ At(c.pos, a) =
                      IF i = 1 THEN At(lead, a)
                      ELSE LET b == cached_nodes[ids[i - 1]]
                           IN  At(b.pos, a) + At(b.size, a) + p.child_gap

\* C19: once the frame's roots are ended, the children of every parent, at
\* any depth, are placed by the position pass relative to that parent
C19_PositionsAtEveryDepth ==
    FrameBuilt =>
        \A id \in Range(DeclaredNow) :
            LET p == cached_nodes[id]
            IN  (p.n_children >= 1 /\ Kids(p).ok) => ChildrenPlaced(p)

\* the same for the children of the frame's roots only
C19_Part_RootChildren ==
    FrameBuilt =>
        \A id \in Range(DeclaredNow) :
            LET p == cached_nodes[id]
            IN  (p.n_children >= 1 /\ Kids(p).ok /\ p.parent = NULL)
                => ChildrenPlaced(p)

\* C20: the grow pass reaches the parents below a root as well: the Grow
\* children (leaves, starting at extent 0) of a nested parent end the frame
\* with equal shares of what that parent's size leaves after its padding,
\* its other children and its gaps
C20_GrowRecursive ==
    FrameBuilt =>
        \A id \in Range(DeclaredNow) :
            LET p == cached_nodes[id]
                a == p.layout_direction
                grown == SelectSeqGrow(cached_nodes, Kids(p).ids, a)
                others == SelectSeq(Kids(p).ids,
                              LAMBDA k : At(cached_nodes[k].sizing_typ, a) # Grow)
                left == At(p.size, a) - sum_along_axis(p.padding, a)
                        - SumSizes(cached_nodes, others, a)
                        - (p.n_children - 1) * p.child_gap
            IN  (/\ p.parent # NULL
                 /\ ParentOf(p, a, {"Grow", "Fixed"})
                 /\ grown # <<>>
                 /\ left > 0
                 /\ left % Len(grown) = 0)
                => \A i \in 1..Len(grown) :
                      At(cached_nodes[grown[i]].size, a) * Len(grown) = left

\* the node was given a position of its own: position(p) with p other than
\* the (0,0) every node starts with
ExplicitPos(n) == n.fixed_pos.some /\ n.fixed_pos.v # Vec2_ZERO

\* the place the parent's position pass gives the first child of p
LeadOf(p) == Vec2(p.pos.x + p.padding.left, p.pos.y + p.padding.top)

\* C21: a node declared with a fixed position, root or nested, ends at that
\* position, and its first child at that position plus the leading padding;
\* a first child without a fixed position ends where its parent puts it
C21_FixedPosOverride ==
    FrameBuilt =>
        \A id \in Range(DeclaredNow) :
            LET n == cached_nodes[id]
            IN  /\ ExplicitPos(n) => n.pos = n.fixed_pos.v
                /\ (ExplicitPos(n) /\ n.first # NULL /\ Kids(n).ok
                    /\ ~cached_nodes[n.first].fixed_pos.some)
                   => cached_nodes[n.first].pos = LeadOf(n)
                /\ (~n.fixed_pos.some /\ n.parent \in DOMAIN cached_nodes
                    /\ cached_nodes[n.parent].parent = NULL
                    /\ cached_nodes[n.parent].first = id)
                   => n.pos = LeadOf(cached_nodes[n.parent])

\* the same for frame roots only
C21_Part_Roots ==
    FrameBuilt =>
        \A id \in Range(DeclaredNow) :
            LET n == cached_nodes[id]
            IN  (ExplicitPos(n) /\ n.parent = NULL) =>
                    /\ n.pos = n.fixed_pos.v
                    /\ (n.first # NULL /\ Kids(n).ok)
                       => cached_nodes[n.first].pos = LeadOf(n)

\* C22: a begin whose label an ended sibling under the same parent has used
\* in this frame is accepted: it resolves to the sibling's id, the node is
\* opened under that id and nothing aborts
C22_ReentrantAccepted ==
    [][(/\ Running
        /\ last_call' = "begin_node"
        /\ node_stack # <<>>
        /\ last_id' \in DOMAIN cached_nodes
        /\ cached_nodes[last_id'].last_frame_used = frame_index
        /\ cached_nodes[last_id'].parent = Top(node_stack).id)
       => /\ status' = "running"
          /\ node_stack' # <<>>
          /\ Top(node_stack').id = last_id']_vars

\* C23: an end_node called while no node is open is a fatal error: either the
\* call aborts, or the finish that follows it does
C23_ExtraEndAborts ==
    [][(/\ Running
        /\ last_call' = "end_node"
        /\ node_stack = <<>>)
       => \/ status' = "panic"
          \/ finish(node_stack', cached_nodes', roots').end = "panic"]_vars

\* every begin of the current frame has been matched by an end: nothing is
\* open, and the nodes declared are in the store
Balanced ==
    /\ status = "running"
    /\ phase = "open"
    /\ node_stack = <<>>
    /\ DeclaredNow # <<>>
    /\ Range(DeclaredNow) \subseteq DOMAIN cached_nodes

RECURSIVE ancestors(_, _)
\* the ids met walking parent from id, for at most fuel steps
ancestors(id, fuel) ==
    IF fuel = 0 \/ id \notin DOMAIN cached_nodes THEN {}
    ELSE LET up == cached_nodes[id].parent
         IN  IF up = NULL THEN {} ELSE {up} \cup ancestors(up, fuel - 1)

\* the child chain of p is well formed
TreeLinks(p) ==
    LET ch == Kids(p)
        n == Len(ch.ids)
    IN  /\ ch.ok
        /\ n = p.n_children
        /\ NoDuplicates(ch.ids)
        /\ IF n = 0 THEN p.first = NULL /\ p.last = NULL
           ELSE ch.ids[n] = p.last
        /\ \A i \in 1..n :
              /\ cached_nodes[ch.ids[i]].parent = p.id
              /\ cached_nodes[ch.ids[i]].prev = IF i = 1 THEN NULL ELSE ch.ids[i - 1]
        /\ p.id \notin Range(ch.ids)
        /\ p.id \notin ancestors(p.id, Cardinality(DOMAIN cached_nodes))

\* C24: after a balanced frame the links of every declared node form a tree:
\* next from first visits n_children distinct nodes and ends at last, each
\* with parent = the node and prev = the one before; no node is its own
\* ancestor or on its own sibling chain
C24_TreeLinks ==
    Balanced => \A id \in Range(DeclaredNow) : TreeLinks(cached_nodes[id])

\* the same for the frames in which no id is declared twice
C24_Part_DistinctIds ==
    (Balanced /\ NoDuplicates(DeclaredNow))
        => \A id \in Range(DeclaredNow) : TreeLinks(cached_nodes[id])

\* the ids of the nodes on the build stack
StackIds == {node_stack[i].id : i \in 1..Len(node_stack)}

\* C25: no id is at once the id of a node on the build stack and a key of the
\* node store, and once every begin is matched by an end each declared node
\* is in the store
C25_StoreStackExclusive ==
    status = "running" =>
        /\ StackIds \cap DOMAIN cached_nodes = {}
        /\ node_stack = <<>> => Range(DeclaredNow) \subseteq DOMAIN cached_nodes

\* no id is on the build stack and in the store at once
Exclusive == StackIds \cap DOMAIN cached_nodes = {}

\* the nodes on the build stack have pairwise distinct ids: no node was begun
\* under the id of a node that is still open
OpenIdsDistinct == Cardinality(StackIds) = Len(node_stack)

\* C25, amended: as long as no node is begun under the id of a node that is
\* still open, every call keeps the ids on the build stack out of the store;
\* and once every begin is matched by an end each declared node is in the store
C25_ExclusiveWhileOpenIdsDistinct ==
    [][(/\ status = "running" /\ status' = "running"
        /\ Exclusive /\ OpenIdsDistinct /\ OpenIdsDistinct')
       => /\ Exclusive'
          /\ node_stack' = <<>> => Range(DeclaredNow') \subseteq DOMAIN cached_nodes']_vars

\* a child has been begun and ended while its parent is still open: the
\* parent is on the stack only, the child in the store only
C25_Witness ==
    /\ status = "running"
    /\ last_call = "end_node"
    /\ Len(node_stack) = 1
    /\ Top(node_stack).n_children >= 1
    /\ OpenIdsDistinct
    /\ Top(node_stack).id \notin DOMAIN cached_nodes
    /\ Top(node_stack).first \in DOMAIN cached_nodes

RECURSIVE subtree(_, _)
\* the ids below the node n in the store, down to fuel levels, and whether
\* every one of them is a key of the store
subtree(n, fuel) ==
    LET ch == Kids(n)
    IN  IF fuel = 0 THEN [ids |-> {}, ok |-> n.first = NULL]
        ELSE [ids |-> Range(ch.ids)
                      \cup UNION {subtree(cached_nodes[k], fuel - 1).ids :
                                     k \in Range(ch.ids)},
              ok |-> ch.ok /\ \A k \in Range(ch.ids) :
                                 subtree(cached_nodes[k], fuel - 1).ok]

\* the node c of the store carries the result of its fit pass and nothing of
\* a later pass: a Fixed extent plus padding, the extent of a childless Grow
\* node still its padding alone, the position still the (0,0) of its begin
FitMeasuredOnly(c) ==
    /\ c.pos = Vec2_ZERO
    /\ \A a \in {"X", "Y"} :
          /\ At(c.sizing_typ, a).typ = "Fixed"
             => At(c.size, a) = At(c.sizing_typ, a).v + sum_along_axis(c.padding, a)
          /\ (At(c.sizing_typ, a) = Grow /\ c.n_children = 0)
             => At(c.size, a) = sum_along_axis(c.padding, a)

\* C26: when a node is ended (fit-measured) every node below it has been
\* ended and fit-measured, and none of them has been grown or placed: the
\* grow and position passes have not run for a subtree before its root is ended
C26_PassOrdering ==
    [][(/\ Running
        /\ last_call' = "end_node"
        /\ node_stack # <<>>)
       => LET n == Top(node_stack)
              below == subtree(n, MaxDepth)
          IN  /\ below.ok
              /\ below.ids \cap StackIds = {}
              /\ \A k \in below.ids :
                    /\ cached_nodes[k].last_frame_used = frame_index
                    /\ FitMeasuredOnly(cached_nodes[k])]_vars

\* a root with a padded child has been ended: the child was placed by the
\* root's position pass, after both had been measured
C26_Witness ==
    /\ status = "running"
    /\ last_call = "end_node"
    /\ node_stack = <<>>
    /\ NoDuplicates(DeclaredNow)
    /\ \E id \in Range(DeclaredNow) :
          LET c == cached_nodes[id]
          IN  /\ id \in DOMAIN cached_nodes
              /\ c.parent \in DOMAIN cached_nodes
              /\ c.n_children >= 1
              /\ c.padding # Padding_ZERO
              /\ cached_nodes[c.parent].parent = NULL
              /\ cached_nodes[c.parent].padding # Padding_ZERO
              /\ c.pos # Vec2_ZERO

RECURSIVE MaxExtent(_, _)
\* the largest extent on axis a of the nodes ids of the store, 0 for none
MaxExtent(ids, a) ==
    IF ids = <<>> THEN 0
    ELSE Max(At(cached_nodes[Head(ids)].size, a), MaxExtent(Tail(ids), a))

Cross(a) == IF a = "X" THEN "Y" ELSE "X"

\* an end_node call that returns, of a node that is Fit on the axis across
\* its layout axis and whose children are all in the store
FitParentEnded ==
    /\ Running
    /\ last_call' = "end_node"
    /\ status' = "running"
    /\ node_stack # <<>>
    /\ Top(node_stack).id \in DOMAIN cached_nodes'
    /\ At(Top(node_stack).sizing_typ, Cross(Top(node_stack).layout_direction)) = Fit
    /\ Kids(Top(node_stack)).ok
    /\ Len(Kids(Top(node_stack)).ids) = Top(node_stack).n_children

\* the node just ended has, across its layout axis, its padding plus the
\* largest extent of its children
CrossIsPaddingPlusMax ==
    LET p == Top(node_stack)
        x == Cross(p.layout_direction)
    IN  At(cached_nodes'[p.id].size, x)
            = sum_along_axis(p.padding, x) + MaxExtent(Kids(p).ids, x)

\* C27: a Fit parent ends with, on the axis across its layout axis, its own
\* padding plus the largest of its children's extents (the padding alone
\* without children); gaps add nothing there
C27_CrossAxisFit == [][FitParentEnded => CrossIsPaddingPlusMax]_vars

\* the same for the Fit parents that have a parent themselves
C27_Part_Nested ==
    [][(FitParentEnded /\ Top(node_stack).parent # NULL)
        => CrossIsPaddingPlusMax]_vars

\* C28: is_dragging goes from false to true only in a tabitem call whose
\* Signal reports dragging and whose id is the active node; that call selects
\* the tab and sets dragging_offset to the tab rect's min x less the pointer's
\* x; while is_dragging stays true dragging_offset is not written, and the
\* dragged tab is moved as a tab at dragging_offset + pointer x
C28_DragStart ==
    [][/\ (~tb.is_dragging /\ tb'.is_dragging)
          => /\ TabitemStep
             /\ dragging(sig')
             /\ track'.active_id = tab_log'.id
             /\ tb'.selected_tab_id = tab_log'.id
             /\ tb'.dragging_offset = tab_log'.rect.min.x - mouse.mouse_pos.x
       /\ (tb.is_dragging /\ tb'.is_dragging)
          => tb'.dragging_offset = tb.dragging_offset
       /\ (TabitemStep /\ tb'.is_dragging /\ tab_log'.is_selected
           /\ tb'.selected_tab_id = tab_log'.id)
          => tab_log'.new_indx =
                get_insert_pos(tb.tabs, tb'.dragging_offset + mouse.mouse_pos.x,
                               TabWidths[tab_next], tab_log'.indx)]_vars

\* a drag that started in an earlier frame goes on with the pointer
\* elsewhere: the offset is still the one taken at the start
C28_Witness ==
    /\ tb.is_dragging
    /\ tab_log.found
    /\ tab_log.is_selected
    /\ tb.selected_tab_id = tab_log.id
    /\ dragging(sig)
    /\ track.active_id = tab_log.id
    /\ tb.dragging_offset # tab_log.rect.min.x - mouse.mouse_pos.x

\* C29: a frame of the bar made with the Left button up leaves no drag in
\* progress: by the end of the frame is_dragging is false
C29_DragEnd ==
    [][(/\ tab_next = Len(TabLabels) + 1
        /\ tab_next' = 0
        /\ ~mouse_pressed(mouse, "Left"))
       => ~tb'.is_dragging]_vars

\* the call of the selected tab has ended a drag: the drag was in progress
\* when the call began, the button is up, and the bar is idle again
C29_Witness ==
    /\ InBar
    /\ tab_log.found
    /\ tab_log.was_dragging
    /\ tab_log.is_selected
    /\ ~mouse_pressed(mouse, "Left")
    /\ ~tb.is_dragging

\* C30: the x a tabitem call draws its tab at lies between the bar's min x
\* and the bar's max x less the tab's width, wherever the pointer is
C30_TabClamp ==
    [][TabitemStep =>
        LET width == tab_log'.rect.max.x - tab_log'.rect.min.x
        IN  width <= BarRect.max.x - BarRect.min.x
            => /\ BarRect.min.x <= tab_log'.draw_x
               /\ tab_log'.draw_x <= BarRect.max.x - width]_vars

\* a dragged tab whose offset plus the pointer's x lies beyond the right end
\* of the bar is drawn against the right end
C30_Witness ==
    /\ tab_log.found
    /\ tb.is_dragging
    /\ tb.selected_tab_id = tab_log.id
    /\ tb.dragging_offset + mouse.mouse_pos.x
         > BarRect.max.x - (tab_log.rect.max.x - tab_log.rect.min.x)
    /\ tab_log.draw_x = BarRect.max.x - (tab_log.rect.max.x - tab_log.rect.min.x)

-----------------------------------------------------------------------------
(* The recorder's buttons *)

\* the step is a call of the named MouseState method
Called(name) ==
    /\ events' # << >>
    /\ events'[1].call = name
    /\ clock' = clock

\* the square of the distance between two points
Dist2(a, b) == (a.x - b.x) * (a.x - b.x) + (a.y - b.y) * (a.y - b.y)

\* C31: a button's dragging flag becomes true only in a set_mouse_pos call
\* made while the button is pressed, to a position strictly farther than the
\* drag threshold from the position recorded at the press; a press leaves it
\* false, a movement within the threshold leaves it as it was, and no
\* movement changes the recorded press position.
C31_DragThreshold ==
    [][\A b \in MouseButtons :
        LET st == mouse.buttons[b]
            st2 == mouse'.buttons[b]
        IN  /\ (~st.dragging /\ st2.dragging) =>
                  /\ Called("set_mouse_pos")
                  /\ st.pressed
                  /\ Dist2(mouse'.mouse_pos, st.press_start_pos)
                        > drag_threshold * drag_threshold
            /\ (~st.pressed /\ st2.pressed) => ~st2.dragging
            /\ (/\ Called("set_mouse_pos")
                /\ Dist2(mouse'.mouse_pos, st.press_start_pos)
                      <= drag_threshold * drag_threshold)
                  => st2.dragging = st.dragging
            /\ Called("set_mouse_pos") => st2.press_start_pos = st.press_start_pos]_vars

\* Left was pressed at the origin, and the pointer, after resting at the
\* threshold without a drag, has just moved beyond it
C31_Witness ==
    /\ events # << >> /\ events[1].call = "set_mouse_pos"
    /\ mouse.buttons["Left"].pressed
    /\ mouse.buttons["Left"].press_start_pos = Vec2(0, 0)
    /\ mouse.prev_pos = Vec2(3, 4)
    /\ mouse.mouse_pos = Vec2(4, 4)
    /\ mouse.buttons["Left"].dragging
    /\ ~mouse.buttons["Right"].pressed

\* C32: a press that comes within the double-click window after a release is
\* no double press when the press that release ended was held longer than the
\* window.
C32_SlowClickBlocks ==
    \A i \in 1..Len(events) :
        (/\ i + 2 <= Len(events)
         /\ events[i].pressed /\ ~events[i + 1].pressed /\ events[i + 2].pressed
         /\ ~WithinWindow(events[i].t, events[i + 1].t)
         /\ WithinWindow(events[i + 1].t, events[i + 2].t))
            => /\ ~events[i + 2].double
               /\ (Len(events) = i + 2 => ~double_clicked(mouse, "Left"))

\* Left was held for longer than the window, released, and pressed again
\* within the window of that release
C32_Witness ==
    /\ Len(events) = 3
    /\ events[1].pressed /\ ~events[2].pressed /\ events[3].pressed
    /\ events[2].t - events[1].t > double_click_time
    /\ events[3].t - events[2].t <= double_click_time
    /\ events[3].t > events[2].t
    /\ mouse_pressed(mouse, "Left")
    /\ ~double_clicked(mouse, "Left")

\* C33: a press is no double press when the pointer was dragged during the
\* press before it: here, when that press was released farther than the drag
\* threshold from where it began, so that dragging was true at its release.
C33_DragIsNoFirstClick ==
    \A i \in 1..Len(events) :
        (/\ i + 2 <= Len(events)
         /\ events[i].pressed /\ ~events[i + 1].pressed /\ events[i + 2].pressed
         /\ Dist2(events[i].pos, events[i + 1].pos) > drag_threshold * drag_threshold)
            => ~events[i + 2].double

-----------------------------------------------------------------------------
(* The accessors of a Signal *)

\* C34: on every Signal, pressed() is true exactly when PRESSED_L is set and
\* clicked() exactly when CLICKED_L is set, and dragging(), released() and
\* double_clicked() exactly when DRAGGING_L, RELEASED_L and DOUBLE_CLICKED_L
\* are set, whatever the other bits.
C34_SignalAccessors ==
    /\ pressed(sig) = ("PRESSED_L" \in sig)
    /\ clicked(sig) = ("CLICKED_L" \in sig)
    /\ dragging(sig) = ("DRAGGING_L" \in sig)
    /\ released(sig) = ("RELEASED_L" \in sig)
    /\ sig_double_clicked(sig) = ("DOUBLE_CLICKED_L" \in sig)

\* the accessors of one bit are as C34 has them
C34_Part_OneBit ==
    /\ dragging(sig) = ("DRAGGING_L" \in sig)
    /\ released(sig) = ("RELEASED_L" \in sig)
    /\ sig_double_clicked(sig) = ("DOUBLE_CLICKED_L" \in sig)

\* dragging and double_press only while pressed, press_time exactly then
ButtonsConsistent(m) ==
    \A b \in MouseButtons :
        /\ m.buttons[b].dragging => m.buttons[b].pressed
        /\ m.buttons[b].double_press => m.buttons[b].pressed
        /\ m.buttons[b].press_time.some = m.buttons[b].pressed

\* C35: in every MouseState that set_mouse_pos and set_button_press calls
\* lead to, each button has dragging only while pressed, double_press only
\* while pressed, and a press_time exactly while pressed; a release leaves
\* the button not pressed, not dragging and no double press.
C35_PointerState ==
    /\ ButtonsConsistent(mouse)
    /\ [][/\ ButtonsConsistent(mouse')
          /\ (Called("set_button_press") /\ ~events'[1].pressed) =>
                /\ ~mouse'.buttons[events'[1].button].pressed
                /\ ~mouse'.buttons[events'[1].button].dragging
                /\ ~mouse'.buttons[events'[1].button].double_press]_vars

\* Left has just been released after a drag, while Right is held in a
\* double press that is being dragged
C35_Witness ==
    /\ events # << >> /\ events[1].call = "set_button_press"
    /\ events[1].button = "Left" /\ ~events[1].pressed
    /\ ~mouse.buttons["Left"].pressed
    /\ mouse.buttons["Left"].last_release_time.some
    /\ Dist2(mouse.mouse_pos, mouse.buttons["Left"].press_start_pos)
          > drag_threshold * drag_threshold
    /\ ~mouse.buttons["Left"].dragging
    /\ mouse.buttons["Right"].pressed
    /\ mouse.buttons["Right"].dragging
    /\ mouse.buttons["Right"].double_press

\* C36: a set_button_press(b, v) call leaves the other buttons' records and
\* the pointer position as they were, and leaves the whole MouseState as it
\* was when b's pressed flag already equals v.
C36_ButtonFrame ==
    [][Called("set_button_press") =>
        LET b == events'[1].button
            v == events'[1].pressed
        IN  /\ \A c \in MouseButtons \ {b} : mouse'.buttons[c] = mouse.buttons[c]
            /\ mouse'.mouse_pos = mouse.mouse_pos
            /\ mouse'.prev_pos = mouse.prev_pos
            /\ mouse.buttons[b].pressed = v => mouse' = mouse]_vars

\* a press event for Left has just arrived while Left was held in a double
\* press begun earlier and dragged away from its origin, with Right down
C36_Witness ==
    /\ events # << >> /\ events[1].call = "set_button_press"
    /\ events[1].button = "Left" /\ events[1].pressed
    /\ mouse.buttons["Left"].pressed
    /\ mouse.buttons["Left"].press_time.t < clock
    /\ mouse.buttons["Left"].press_start_pos # mouse.mouse_pos
    /\ mouse.buttons["Left"].dragging
    /\ mouse.buttons["Left"].double_press
    /\ mouse.buttons["Right"].pressed

-----------------------------------------------------------------------------
(* The tab list over frames that declare any of the tabs *)

\* the selected tab id names a tab of the list, once there is one
SelectedInList(tbar) ==
    tbar.tabs # << >> => tbar.selected_tab_id \in Range(TabIds(tbar.tabs))

\* C37: through every sequence of begin_tabbar, tabitem and end_tabbar calls
\* the tab list holds no id twice, loses no id it held (a tab that a frame
\* leaves out stays in it), and, once it is not empty, holds the selected
\* tab id.
C37_TabList ==
    /\ NoDuplicates(TabIds(tb.tabs))
    /\ SelectedInList(tb)
    /\ [][/\ NoDuplicates(TabIds(tb'.tabs))
          /\ SelectedInList(tb')
          /\ Range(TabIds(tb.tabs)) \subseteq Range(TabIds(tb'.tabs))]_vars

\* a frame after the first has left out tab 3, the selected tab, which an
\* earlier frame put in the list behind another tab: it is still in the list
\* and still selected
C37_Witness ==
    /\ tab_next = Len(TabLabels) + 1
    /\ tab_log = NoTabCall
    /\ track.frame >= 2
    /\ Len(tb.tabs) >= 2
    /\ tb.tabs[1].id # 3
    /\ 3 \in Range(TabIds(tb.tabs))
    /\ tb.selected_tab_id = 3

-----------------------------------------------------------------------------
(* The renderer's frame protocol *)

\* the two fatal checks of the renderer
ProtocolPanics ==
    {"panic: prepare_frame called with active surface",
     "panic: prepare_frame must be called before surface_target"}

\* no surface texture is held and neither check has fired
NoActiveSurface ==
    /\ ~renderer.active_surface
    /\ app.status \notin ProtocolPanics

\* C38 (as stated): between window events the renderer holds no active
\* surface texture and neither fatal check has been reached, and every
\* RedrawRequested either acquired, rendered and presented, or met a Lost or
\* Outdated surface, resized and returned.
C38_FrameProtocol ==
    /\ NoActiveSurface
    /\ \/ app.redraw = "none"
       \/ app.redraw = "presented" /\ app.texture = "Ok"
       \/ app.redraw = "resized" /\ app.texture \in {"Lost", "Outdated"}

\* C38 (as the code has it): between window events the renderer holds no
\* active surface texture and neither fatal check has been reached; every
\* RedrawRequested either acquired, rendered and presented, or met a Lost or
\* Outdated surface, resized and returned, or met another surface error and
\* aborted the process at the handler's own check, in each case with no
\* surface texture held.
C38_FrameProtocolOrAbort ==
    /\ NoActiveSurface
    /\ \/ app.redraw = "none"
       \/ app.redraw = "presented" /\ app.texture = "Ok"
       \/ app.redraw = "resized" /\ app.texture \in {"Lost", "Outdated"}
       \/ /\ app.redraw = "aborted"
          /\ app.texture \in {"Timeout", "OutOfMemory", "Other"}
          /\ app.status = "panic: prepare_frame: error"

\* a frame has been presented after an earlier RedrawRequested met a lost or
\* outdated surface and configured it to the window's size, 2 by 2, which no
\* Resized event has reported
C38_Witness ==
    /\ app.redraw = "presented"
    /\ app.status = "running"
    /\ app.last_size = Vec2(1, 1)
    /\ window_size = Vec2(2, 2)
    /\ renderer.surface_config = Vec2(2, 2)
    /\ ~renderer.active_surface

-----------------------------------------------------------------------------
(* The pipeline registry under concurrent callers *)

\* the thread's get_or_init_pipeline call gets its result in this step
Obtains(t) ==
    /\ callers[t].op = "get_or_init_pipeline"
    /\ callers[t].pc \in {"locked", "load"}
    /\ callers'[t].pc = "unlock"

\* C39: whatever the interleaving of the threads, the load function is
\* invoked at most once for each PipelineID, and every get_or_init_pipeline
\* call for an id returns the registry's entry for it, the same pipeline as
\* the calls before it returned since register_pipeline last replaced that
\* entry.
C39_PipelineOnce ==
    [][/\ \A id \in PipelineIDs : gpu_log'.loads[id] <= 1
       /\ \A t \in Threads :
            Obtains(t) =>
               /\ callers'[t].ret # 0
               /\ callers'[t].ret = pipeline_reg'.map[callers[t].id]
               /\ gpu_log.returned[callers[t].id] \in {0, callers'[t].ret}
       /\ \A id \in PipelineIDs :
            pipeline_reg'.map[id] # pipeline_reg.map[id] =>
               \/ pipeline_reg.map[id] = 0
               \/ \E t \in Threads : /\ callers[t].op = "register_pipeline"
                                     /\ callers[t].id = id
                                     /\ callers[t].pc = "locked"]_vars

\* both threads have called get_or_init_pipeline for ClearScreen: the
\* function was loaded once, thread 1 has returned the pipeline and thread 2
\* holds the same one under the guard
C39_Witness ==
    /\ callers[1].op = "get_or_init_pipeline" /\ callers[1].id = "ClearScreen"
    /\ callers[2].op = "get_or_init_pipeline" /\ callers[2].id = "ClearScreen"
    /\ callers[1].pc = "idle" /\ callers[1].ret # 0
    /\ callers[2].pc = "unlock" /\ callers[2].ret = callers[1].ret
    /\ gpu_log.loads["ClearScreen"] = 1
    /\ pipeline_reg.holder = 2

====
